---- MODULE Spec2Model ----
(***************************************************************************)
(* GitOps DNS reconciliation of is-an.ai: the full-zone PowerDNS sync      *)
(* (syncDNSRecords), the incremental PowerDNS update (processChanges) and  *)
(* the Cloudflare sync, modelled from .github/scripts.                     *)
(*                                                                         *)
(* Strings that the scripts take apart (record contents, priorities) are   *)
(* sequences of one-character strings.  DNS names and file names are       *)
(* sequences of labels; the zone "is-an.ai" is the single label ZONE, so   *)
(* <<"x", ZONE>> is the FQDN "x.is-an.ai." and <<"y", "x">> the subdomain  *)
(* "y.x".  Record types are TLA+ strings.                                  *)
(***************************************************************************)
EXTENDS Integers, Sequences, FiniteSets, TLC

\* ------------------------------------------------------------------------
\* String primitives (JavaScript String.prototype.*), on character sequences
\* ------------------------------------------------------------------------

startsWith(s, pre) ==
    /\ Len(pre) <= Len(s)
    /\ SubSeq(s, 1, Len(pre)) = pre

endsWith(s, suf) ==
    /\ Len(suf) <= Len(s)
    /\ SubSeq(s, Len(s) - Len(suf) + 1, Len(s)) = suf

\* Position of the first occurrence of pat in s, 0 when there is none.
indexOf(s, pat) ==
    LET hits == {i \in 1..(Len(s) - Len(pat) + 1) : SubSeq(s, i, i + Len(pat) - 1) = pat}
    IN  IF hits = {} THEN 0 ELSE CHOOSE i \in hits : \A j \in hits : i <= j

includes(s, pat) == indexOf(s, pat) # 0

RECURSIVE split(_, _)
split(s, pat) ==
    LET i == indexOf(s, pat)
    IN  IF i = 0
        THEN <<s>>
        ELSE <<SubSeq(s, 1, i - 1)>> \o split(SubSeq(s, i + Len(pat), Len(s)), pat)

RECURSIVE join(_, _)
join(parts, sep) ==
    IF Len(parts) = 0 THEN <<>>
    ELSE IF Len(parts) = 1 THEN parts[1]
    ELSE parts[1] \o sep \o join(Tail(parts), sep)

RECURSIVE trimStart(_)
trimStart(s) ==
    IF Len(s) > 0 /\ s[1] = " " THEN trimStart(Tail(s)) ELSE s

RECURSIVE trimEnd(_)
trimEnd(s) ==
    IF Len(s) > 0 /\ s[Len(s)] = " " THEN trimEnd(SubSeq(s, 1, Len(s) - 1)) ELSE s

trim(s) == trimEnd(trimStart(s))

Digits == {"0", "1", "2", "3", "4", "5", "6", "7", "8", "9"}

NaN == <<"N", "a", "N">>

digitValue(c) ==
    CASE c = "0" -> 0 [] c = "1" -> 1 [] c = "2" -> 2 [] c = "3" -> 3 [] c = "4" -> 4
      [] c = "5" -> 5 [] c = "6" -> 6 [] c = "7" -> 7 [] c = "8" -> 8 [] c = "9" -> 9

digitChar(n) ==
    CASE n = 0 -> "0" [] n = 1 -> "1" [] n = 2 -> "2" [] n = 3 -> "3" [] n = 4 -> "4"
      [] n = 5 -> "5" [] n = 6 -> "6" [] n = 7 -> "7" [] n = 8 -> "8" [] n = 9 -> "9"

\* The number a string of digits denotes.
RECURSIVE toNumber(_)
toNumber(d) ==
    IF Len(d) = 0 THEN 0
    ELSE 10 * toNumber(SubSeq(d, 1, Len(d) - 1)) + digitValue(d[Len(d)])

\* String(n) of a number n >= 0.
RECURSIVE toString(_)
toString(n) ==
    IF n < 10 THEN <<digitChar(n)>> ELSE toString(n \div 10) \o <<digitChar(n % 10)>>

RECURSIVE digitPrefix(_)
digitPrefix(s) ==
    IF Len(s) > 0 /\ s[1] \in Digits THEN <<s[1]>> \o digitPrefix(Tail(s)) ELSE <<>>

RECURSIVE stripZeros(_)
stripZeros(d) ==
    IF Len(d) > 1 /\ d[1] = "0" THEN stripZeros(Tail(d)) ELSE d

\* String(parseInt(s, 10)): the decimal rendering of the integer that
\* parseInt reads off the front of s, or "NaN". A Number of 10^21 or more
\* renders as mantissa and exponent ("1e+21"); the digits are exact for
\* integers of up to 15 significant digits.
parseInt(s) ==
    LET t    == trimStart(s)
        neg  == Len(t) > 0 /\ t[1] = "-"
        body == IF Len(t) > 0 /\ t[1] \in {"-", "+"} THEN Tail(t) ELSE t
        d    == digitPrefix(body)
        n    == stripZeros(d)
        last == CHOOSE k \in 1..Len(n) : n[k] # "0" /\ \A j \in (k + 1)..Len(n) : n[j] = "0"
        r    == IF Len(n) <= 21 THEN n
                ELSE <<n[1]>> \o (IF last > 1 THEN <<".">> \o SubSeq(n, 2, last) ELSE <<>>)
                     \o <<"e", "+">> \o toString(Len(n) - 1)
    IN  IF d = <<>> THEN NaN
        ELSE IF neg /\ n # <<"0">> THEN <<"-">> \o r
        ELSE r

\* /^\d+$/.test(s)
allDigits(s) == Len(s) > 0 /\ \A i \in 1..Len(s) : s[i] \in Digits

\* /^(?:[0-9]{1,3}\.){3}[0-9]{1,3}$/.test(s)
ipv4Regex(s) ==
    LET parts == split(s, <<".">>)
    IN  /\ Len(parts) = 4
        /\ \A i \in 1..4 : allDigits(parts[i]) /\ Len(parts[i]) <= 3

\* type.toUpperCase() on the record types that occur.
toUpperCase(type) ==
    CASE type = "a"     -> "A"
      [] type = "aaaa"  -> "AAAA"
      [] type = "cname" -> "CNAME"
      [] type = "mx"    -> "MX"
      [] type = "txt"   -> "TXT"
      [] OTHER          -> type

\* ------------------------------------------------------------------------
\* Content canonicalization
\* ------------------------------------------------------------------------

typesNeedingDot == {"CNAME", "MX", "NS", "SRV", "PTR"}

InTxt == <<" ", "I", "N", " ", "T", "X", "T", " ">>

Quote == "\""

\* The TXT branch, shared by both scripts.
normalizeTxt(content) ==
    LET c1 == IF includes(content, InTxt) /\ Len(split(content, InTxt)) > 1
              THEN trim(split(content, InTxt)[2])
              ELSE content
        c2 == IF startsWith(c1, <<Quote>>) /\ endsWith(c1, <<Quote>>)
              THEN SubSeq(c1, 2, Len(c1) - 1)
              ELSE c1
    IN  <<Quote>> \o c2 \o <<Quote>>

\* normalizeContent of the full-zone sync script.
normalizeContent(type, content) ==
    LET upperType == toUpperCase(type)
        parts     == split(content, <<".">>)
    IN  IF upperType \in typesNeedingDot /\ ~endsWith(content, <<".">>)
        THEN content \o <<".">>
        ELSE IF upperType = "TXT" THEN normalizeTxt(content)
        ELSE IF upperType = "A" /\ includes(content, <<".">>) /\ Len(parts) = 4
        THEN join([i \in 1..4 |-> parseInt(parts[i])], <<".">>)
        ELSE content

\* normalizeContent of the incremental update script: the A branch also
\* requires every octet to be all digits.
normalizeContentUpdate(type, content) ==
    LET upperType == toUpperCase(type)
        parts     == split(content, <<".">>)
    IN  IF upperType \in typesNeedingDot /\ ~endsWith(content, <<".">>)
        THEN content \o <<".">>
        ELSE IF upperType = "TXT" THEN normalizeTxt(content)
        ELSE IF /\ upperType = "A" /\ includes(content, <<".">>) /\ Len(parts) = 4
                /\ \A i \in 1..4 : allDigits(parts[i])
        THEN join([i \in 1..4 |-> parseInt(parts[i])], <<".">>)
        ELSE content

\* ------------------------------------------------------------------------
\* Names
\* ------------------------------------------------------------------------

\* PDNS_ZONE / BASE_DOMAIN, as one label.
ZONE == "is-an.ai"

\* The apex sentinel.
APEX == <<"@">>

toLowerCaseLabel(l) ==
    CASE l = "X"   -> "x"
      [] l = "DEV" -> "dev"
      [] OTHER     -> l

\* name.toLowerCase()
toLowerCaseName(name) == [i \in 1..Len(name) |-> toLowerCaseLabel(name[i])]

\* Sync script: the file's base name (without .json) to its subdomain;
\* punycode.toASCII leaves ASCII labels as they are.
getSubdomainFromPath(filename) ==
    IF Len(filename) > 1 /\ filename[Len(filename)] = ZONE
    THEN SubSeq(filename, 1, Len(filename) - 1)
    ELSE IF filename = <<ZONE>> THEN APEX
    ELSE filename

fqdnToSubdomain(fqdn) ==
    IF fqdn = <<ZONE>> THEN APEX
    ELSE LET hits == {i \in 2..Len(fqdn) : fqdn[i] = ZONE}
         IN  IF hits = {} THEN fqdn
             ELSE LET i == CHOOSE h \in hits : \A j \in hits : h <= j
                  IN  SubSeq(fqdn, 1, i - 1) \o SubSeq(fqdn, i + 1, Len(fqdn))

RECURSIVE stripLeadingDots(_)
stripLeadingDots(sub) ==
    IF Len(sub) > 0 /\ sub[1] = "" THEN stripLeadingDots(Tail(sub)) ELSE sub

RECURSIVE stripTrailingDots(_)
stripTrailingDots(sub) ==
    IF Len(sub) > 0 /\ sub[Len(sub)] = ""
    THEN stripTrailingDots(SubSeq(sub, 1, Len(sub) - 1))
    ELSE sub

subdomainToFqdn(subdomain) ==
    LET sub == stripTrailingDots(stripLeadingDots(subdomain))
    IN  toLowerCaseName(IF sub = <<>> \/ sub = APEX THEN <<ZONE>> ELSE sub \o <<ZONE>>)

\* otherKey.endsWith("." + subdomain)
isChildOf(otherKey, subdomain) ==
    /\ Len(otherKey) > Len(subdomain)
    /\ SubSeq(otherKey, Len(otherKey) - Len(subdomain) + 1, Len(otherKey)) = subdomain

PROTECTED_SUBDOMAINS ==
    {APEX, <<"www">>, <<"ns1">>, <<"dev">>, <<"blog">>, <<"api">>}

\* PROTECTED_DOMAINS of the full-zone sync.
PROTECTED_DOMAINS ==
    {<<ZONE>>, <<"www", ZONE>>, <<"ns1", ZONE>>, <<"ns2", ZONE>>, <<"api", ZONE>>,
     <<"docs", ZONE>>, <<"status", ZONE>>, <<"dashboard", ZONE>>, <<"assets", ZONE>>,
     <<"_dmarc", ZONE>>, <<"smtp", ZONE>>, <<"mail", ZONE>>, <<"_vercel", ZONE>>,
     <<"_domainkey", ZONE>>, <<"_github-challenge-is-an-ai", ZONE>>}

\* PROTECTED_DOMAINS of the incremental update.
PROTECTED_DOMAINS_UPDATE ==
    {<<ZONE>>, <<"www", ZONE>>, <<"ns1", ZONE>>, <<"ns2", ZONE>>, <<"api", ZONE>>,
     <<"docs", ZONE>>, <<"status", ZONE>>, <<"_dmarc", ZONE>>, <<"_vercel", ZONE>>}

\* normName: lower case, trailing dot removed (names here carry no dot).
normName(n) == toLowerCaseName(n)

DEFAULT_TTL == 300

\* ------------------------------------------------------------------------
\* JavaScript Map: a sequence of <<key, value>> in insertion order
\* ------------------------------------------------------------------------

MapHas(m, k) == \E i \in 1..Len(m) : m[i][1] = k

MapGet(m, k) == m[CHOOSE i \in 1..Len(m) : m[i][1] = k][2]

MapSet(m, k, v) ==
    IF MapHas(m, k)
    THEN [i \in 1..Len(m) |-> IF m[i][1] = k THEN <<k, v>> ELSE m[i]]
    ELSE Append(m, <<k, v>>)

MapKeys(m) == [i \in 1..Len(m) |-> m[i][1]]

MapValues(m) == [i \in 1..Len(m) |-> m[i][2]]

Range(s) == {s[i] : i \in 1..Len(s)}

RECURSIVE Flatten(_)
Flatten(ss) == IF Len(ss) = 0 THEN <<>> ELSE ss[1] \o Flatten(Tail(ss))

\* ------------------------------------------------------------------------
\* Signatures
\* ------------------------------------------------------------------------

\* priority === undefined
undefined == <<>>

Sig(subdomain, type, content, priority) ==
    [subdomain |-> subdomain, type |-> type, content |-> content, priority |-> priority]

\* `${subdomain}:${type}:${content}[:${priority}]`, kept as the tuple of its parts.
createRecordSignature(record) ==
    IF record.priority # undefined
    THEN <<record.subdomain, record.type, record.content, record.priority>>
    ELSE <<record.subdomain, record.type, record.content>>

\* One record of a PowerDNS RRSet as a signature (priority split off an MX content).
convertPdnsRecord(rrset, content) ==
    LET parts == split(content, <<" ">>)
    IN  IF rrset.type = "MX" /\ content # <<>> /\ Len(parts) = 2
        THEN Sig(fqdnToSubdomain(rrset.name), rrset.type, parts[2], parseInt(parts[1]))
        ELSE Sig(fqdnToSubdomain(rrset.name), rrset.type, content, undefined)

convertPdnsRRSetToSignatures(rrset) ==
    [i \in 1..Len(rrset.records) |-> convertPdnsRecord(rrset, rrset.records[i])]

\* ------------------------------------------------------------------------
\* Repository loader
\* ------------------------------------------------------------------------

\* The loop over fileData.record: invalid A values and malformed values are dropped.
RECURSIVE signaturesOfRecords(_, _)
signaturesOfRecords(subdomain, record) ==
    IF Len(record) = 0 THEN <<>>
    ELSE LET def  == record[1]
             type == toUpperCase(def.type)
             rest == signaturesOfRecords(subdomain, Tail(record))
         IN  IF type = "A" /\ def.kind = "string" /\ ~ipv4Regex(def.value)
             THEN rest
             ELSE IF type = "MX" /\ def.kind = "mx"
             THEN <<Sig(subdomain, type, def.value, def.priority)>> \o rest
             ELSE IF def.kind = "string"
             THEN <<Sig(subdomain, type, def.value, undefined)>> \o rest
             ELSE rest

\* loadAllRepositoryRecords: Map<subdomain, RecordSignature[]> over the files in
\* directory order; upper-case names and unparsable files are skipped.
RECURSIVE loadAllRepositoryRecords(_)
loadAllRepositoryRecords(jsonFiles) ==
    IF Len(jsonFiles) = 0 THEN <<>>
    ELSE LET n         == Len(jsonFiles)
             file      == jsonFiles[n]
             recordMap == loadAllRepositoryRecords(SubSeq(jsonFiles, 1, n - 1))
             subdomain == getSubdomainFromPath(file.name)
         IN  IF subdomain = <<>> THEN recordMap
             ELSE IF subdomain # toLowerCaseName(subdomain) THEN recordMap
             ELSE IF file.parse # "ok" THEN recordMap
             ELSE MapSet(recordMap, subdomain, signaturesOfRecords(subdomain, file.record))

\* ------------------------------------------------------------------------
\* Full-zone sync: signature index, diff, RRSet rollup
\* ------------------------------------------------------------------------

\* Variant: every RRSet the provider returns is managed.
managedRRSetsAll(rrsets) == rrsets

\* fetchAllPdnsRRSets on success: SOA and NS are not managed.
managedRRSets(rrsets) ==
    LET Managed(rr) == rr.type # "SOA" /\ rr.type # "NS"
    IN  SelectSeq(rrsets, Managed)

\* Variant: a failed read is taken for an empty zone.
fetchAllPdnsRRSetsOrNone(zoneRRSets, readFails) ==
    [threw |-> FALSE, rrsets |-> IF readFails THEN <<>> ELSE managedRRSets(zoneRRSets)]

\* fetchAllPdnsRRSets: a failed request (error or timeout) is thrown on.
fetchAllPdnsRRSets(zoneRRSets, readFails) ==
    IF readFails THEN [threw |-> TRUE, rrsets |-> <<>>]
    ELSE [threw |-> FALSE, rrsets |-> managedRRSets(zoneRRSets)]

\* Map<signatureKey, RecordSignature>: a later signature with the same key
\* replaces the value and keeps the position.
RECURSIVE signatureMap(_)
signatureMap(sigs) ==
    IF Len(sigs) = 0 THEN <<>>
    ELSE LET n == Len(sigs)
         IN  MapSet(signatureMap(SubSeq(sigs, 1, n - 1)),
                    createRecordSignature(sigs[n]), sigs[n])

pdnsSignaturesOf(pdnsRRSets) ==
    signatureMap(Flatten([i \in 1..Len(pdnsRRSets) |->
                             convertPdnsRRSetToSignatures(pdnsRRSets[i])]))

repositoryRecordsOf(repositoryRecordsMap) == Flatten(MapValues(repositoryRecordsMap))

repositorySignaturesOf(repositoryRecordsMap) ==
    signatureMap(repositoryRecordsOf(repositoryRecordsMap))

\* changedRrsetKeys.set(`${subdomain}:${type}`, ...) unless the key is there.
RECURSIVE addRrsetKeys(_, _)
addRrsetKeys(changedRrsetKeys, sigs) ==
    IF Len(sigs) = 0 THEN changedRrsetKeys
    ELSE LET n    == Len(sigs)
             prev == addRrsetKeys(changedRrsetKeys, SubSeq(sigs, 1, n - 1))
             key  == <<sigs[n].subdomain, sigs[n].type>>
         IN  IF MapHas(prev, key) THEN prev
             ELSE Append(prev, <<key, [subdomain |-> sigs[n].subdomain, type |-> sigs[n].type]>>)

\* Step 3: every RRSet of the repository is entered in changedRrsetKeys.
seedChangedRrsetKeys(repositoryRecordsMap) ==
    addRrsetKeys(<<>>, repositoryRecordsOf(repositoryRecordsMap))

toCreateOf(repositorySignatures, pdnsSignatures) ==
    LET Missing(sig) == ~MapHas(pdnsSignatures, createRecordSignature(sig))
    IN  SelectSeq(MapValues(repositorySignatures), Missing)

\* Provider signatures whose key the repository does not have.
orphansOf(repositorySignatures, pdnsSignatures) ==
    LET Orphan(sig) == ~MapHas(repositorySignatures, createRecordSignature(sig))
    IN  SelectSeq(MapValues(pdnsSignatures), Orphan)

\* Variant: no subdomain is protected in the diff.
isProtectedSubdomainNever(sig) == FALSE

isProtectedSubdomain(sig) == sig.subdomain \in PROTECTED_SUBDOMAINS

\* Variant: every orphan is listed for deletion.
toDeleteOfOrphans(repositorySignatures, pdnsSignatures) ==
    orphansOf(repositorySignatures, pdnsSignatures)

toDeleteOf(repositorySignatures, pdnsSignatures) ==
    LET Deletable(sig) == ~isProtectedSubdomain(sig)
    IN  SelectSeq(orphansOf(repositorySignatures, pdnsSignatures), Deletable)

protectedCountOf(repositorySignatures, pdnsSignatures) ==
    LET Kept(sig) == isProtectedSubdomain(sig)
    IN  Len(SelectSeq(orphansOf(repositorySignatures, pdnsSignatures), Kept))

PatchRecord(content, priority) == [content |-> content, priority |-> priority]

PatchRRSet(name, type, ttl, changetype, records) ==
    [name |-> name, type |-> type, ttl |-> ttl, changetype |-> changetype,
     records |-> records]

\* The CNAME -> ALIAS decision of the full-zone sync.
finalTypeOf(repositoryRecordsMap, subdomain, type) ==
    LET fqdn          == subdomainToFqdn(subdomain)
        allRecords    == IF MapHas(repositoryRecordsMap, subdomain)
                         THEN MapGet(repositoryRecordsMap, subdomain) ELSE <<>>
        hasOtherTypes == \E r \in Range(allRecords) : r.type # "CNAME"
        hasChildren   == \E otherKey \in Range(MapKeys(repositoryRecordsMap)) :
                            isChildOf(otherKey, subdomain)
    IN  IF type # "CNAME" THEN type
        ELSE IF fqdn = <<ZONE>> THEN "ALIAS"
        ELSE IF hasOtherTypes THEN "ALIAS"
        ELSE IF subdomain # APEX /\ hasChildren THEN "ALIAS"
        ELSE "CNAME"

\* Variant: the A/AAAA records of the file are not looked at.
hasIPRecordsNever(repositoryRecordsMap, subdomain) == FALSE

\* A CNAME RRSet is ignored when the same file has A or AAAA records.
hasIPRecords(repositoryRecordsMap, subdomain) ==
    /\ MapHas(repositoryRecordsMap, subdomain)
    /\ \E r \in Range(MapGet(repositoryRecordsMap, subdomain)) : r.type \in {"A", "AAAA"}

\* Variant: every desired CNAME record of the name is sent.
rrsetOperationsAllRecords(repositoryRecordsMap, subdomain, type) ==
    LET fqdn       == subdomainToFqdn(subdomain)
        OfType(r)  == r.type = type
        allRecords == IF MapHas(repositoryRecordsMap, subdomain)
                      THEN MapGet(repositoryRecordsMap, subdomain) ELSE <<>>
        ofType     == SelectSeq(allRecords, OfType)
    IN  IF Len(ofType) > 0
        THEN IF type = "CNAME" /\ hasIPRecords(repositoryRecordsMap, subdomain)
             THEN <<>>
             ELSE <<PatchRRSet(fqdn, finalTypeOf(repositoryRecordsMap, subdomain, type),
                               DEFAULT_TTL, "REPLACE",
                               [i \in 1..Len(ofType) |->
                                   PatchRecord(normalizeContent(ofType[i].type,
                                                                ofType[i].content),
                                               ofType[i].priority)])>>
        ELSE <<PatchRRSet(fqdn, type, DEFAULT_TTL, "DELETE", <<>>)>>

\* Step 5, one changed RRSet key: no operation, one REPLACE or one DELETE.
rrsetOperations(repositoryRecordsMap, subdomain, type) ==
    LET fqdn       == subdomainToFqdn(subdomain)
        OfType(r)  == r.type = type
        allRecords == IF MapHas(repositoryRecordsMap, subdomain)
                      THEN MapGet(repositoryRecordsMap, subdomain) ELSE <<>>
        ofType     == SelectSeq(allRecords, OfType)
        repoRecordsForRrset ==
            IF type = "CNAME" /\ Len(ofType) > 1 THEN <<ofType[1]>> ELSE ofType
    IN  IF Len(ofType) > 0
        THEN IF type = "CNAME" /\ hasIPRecords(repositoryRecordsMap, subdomain)
             THEN <<>>
             ELSE <<PatchRRSet(fqdn, finalTypeOf(repositoryRecordsMap, subdomain, type),
                               DEFAULT_TTL, "REPLACE",
                               [i \in 1..Len(repoRecordsForRrset) |->
                                   PatchRecord(normalizeContent(repoRecordsForRrset[i].type,
                                                                repoRecordsForRrset[i].content),
                                               repoRecordsForRrset[i].priority)])>>
        ELSE <<PatchRRSet(fqdn, type, DEFAULT_TTL, "DELETE", <<>>)>>

patchPayloadOf(repositoryRecordsMap, changedRrsetKeys) ==
    Flatten([i \in 1..Len(changedRrsetKeys) |->
                rrsetOperations(repositoryRecordsMap,
                                changedRrsetKeys[i][2].subdomain,
                                changedRrsetKeys[i][2].type)])

\* patchPayload.sort: DELETE before the rest, otherwise the order is kept.
sortDeletesFirst(payload) ==
    LET IsDelete(item) == item.changetype = "DELETE"
        NotDelete(item) == item.changetype # "DELETE"
    IN  SelectSeq(payload, IsDelete) \o SelectSeq(payload, NotDelete)

\* Variant: every operation on a protected FQDN is taken out of the payload.
filterProtectedNames(payload) ==
    LET Keep(item) == item.name \notin PROTECTED_DOMAINS
    IN  SelectSeq(payload, Keep)

\* Step 6: DELETEs of the protected FQDNs are taken out of the payload.
filterProtected(payload) ==
    LET Keep(item) == ~(item.name \in PROTECTED_DOMAINS /\ item.changetype = "DELETE")
    IN  SelectSeq(payload, Keep)

\* syncDNSRecords from the two loaded states to the payload handed to the PATCH.
SyncPlan(pdnsRRSets, repositoryRecordsMap) ==
    LET pdnsSignatures       == pdnsSignaturesOf(pdnsRRSets)
        repositorySignatures == repositorySignaturesOf(repositoryRecordsMap)
        toCreate             == toCreateOf(repositorySignatures, pdnsSignatures)
        toDelete             == toDeleteOf(repositorySignatures, pdnsSignatures)
        changedRrsetKeys     == addRrsetKeys(seedChangedRrsetKeys(repositoryRecordsMap),
                                             toDelete)
        patchPayload         == patchPayloadOf(repositoryRecordsMap, changedRrsetKeys)
    IN  [desired        |-> MapKeys(repositorySignatures),
         actual         |-> MapKeys(pdnsSignatures),
         toCreate       |-> toCreate,
         toDelete       |-> toDelete,
         protectedCount |-> protectedCountOf(repositorySignatures, pdnsSignatures),
         changed        |-> MapKeys(changedRrsetKeys),
         patchPayload   |-> sortDeletesFirst(patchPayload),
         finalPayload   |-> IF patchPayload = <<>> THEN <<>>
                            ELSE filterProtected(sortDeletesFirst(patchPayload))]

\* ------------------------------------------------------------------------
\* The PowerDNS zone: what a PATCH of RRSets does to it
\* ------------------------------------------------------------------------

\* A record as GET returns it: the priority is part of the content.
storedContent(rec) ==
    IF rec.priority # undefined THEN rec.priority \o <<" ">> \o rec.content
    ELSE rec.content

RRSet(name, type, ttl, records) ==
    [name |-> name, type |-> type, ttl |-> ttl, records |-> records]

applyOperation(zoneRRSets, item) ==
    LET Other(rr) == ~(rr.name = item.name /\ rr.type = item.type)
        new       == RRSet(item.name, item.type, item.ttl,
                           [i \in 1..Len(item.records) |-> storedContent(item.records[i])])
    IN  IF item.changetype = "DELETE" THEN SelectSeq(zoneRRSets, Other)
        ELSE IF \E rr \in Range(zoneRRSets) : ~Other(rr)
        THEN [i \in 1..Len(zoneRRSets) |->
                 IF Other(zoneRRSets[i]) THEN zoneRRSets[i] ELSE new]
        ELSE Append(zoneRRSets, new)

RECURSIVE applyPatch(_, _)
applyPatch(zoneRRSets, payload) ==
    IF Len(payload) = 0 THEN zoneRRSets
    ELSE applyPatch(applyOperation(zoneRRSets, payload[1]), Tail(payload))

\* Variant: the request is sent whether or not DRY_RUN is set.
executePdnsPatchAlways(zoneRRSets, payload, dry, accepted) ==
    IF accepted
    THEN [success |-> TRUE, requests |-> 1, rrsets |-> applyPatch(zoneRRSets, payload)]
    ELSE [success |-> FALSE, requests |-> 1, rrsets |-> zoneRRSets]

\* executePdnsPatch of the full-zone sync: under DRY_RUN the payload is logged
\* and no request is made; otherwise one PATCH, applied as a whole or rejected
\* (or timed out) as a whole.
executePdnsPatch(zoneRRSets, payload, dry, accepted) ==
    IF dry THEN [success |-> TRUE, requests |-> 0, rrsets |-> zoneRRSets]
    ELSE IF accepted
    THEN [success |-> TRUE, requests |-> 1, rrsets |-> applyPatch(zoneRRSets, payload)]
    ELSE [success |-> FALSE, requests |-> 1, rrsets |-> zoneRRSets]

\* executePdnsPatch of the incremental update: there is no dry run.
executePdnsPatchUpdate(zoneRRSets, payload, accepted) ==
    IF accepted
    THEN [success |-> TRUE, requests |-> 1, rrsets |-> applyPatch(zoneRRSets, payload)]
    ELSE [success |-> FALSE, requests |-> 1, rrsets |-> zoneRRSets]

\* ------------------------------------------------------------------------
\* Numbers and dates of the SOA serial
\* ------------------------------------------------------------------------

\* String(n).padStart(2, "0")
padStart2(n) == IF n < 10 THEN <<"0">> \o toString(n) ELSE toString(n)

\* `${YYYY}${MM}${DD}` through parseInt and back to a string.
todayPrefixOf(today) ==
    parseInt(toString(today.year) \o padStart2(today.month) \o padStart2(today.day))

\* content.split(/\s+/)
RECURSIVE splitWhitespace(_)
splitWhitespace(s) ==
    LET i == indexOf(s, <<" ">>)
    IN  IF i = 0 THEN <<s>>
        ELSE <<SubSeq(s, 1, i - 1)>> \o splitWhitespace(trimStart(SubSeq(s, i, Len(s))))

\* getCurrentSoaSerial, as String(currentSerial): "0" without an SOA record
\* or when the read fails.
getCurrentSoaSerial(zoneRRSets, readFails) ==
    LET IsSoa(rr) == rr.type = "SOA"
        soa       == SelectSeq(zoneRRSets, IsSoa)
    IN  IF readFails \/ Len(soa) = 0 \/ Len(soa[1].records) = 0 THEN <<"0">>
        ELSE LET parts == splitWhitespace(soa[1].records[1])
             IN  IF Len(parts) >= 3 THEN parseInt(parts[3]) ELSE <<"0">>

\* The new serial, as a string: the current one plus one when it has ten
\* digits and starts with today's prefix, else today's prefix followed by 01.
newSerialOf(currentSerialStr, today) ==
    LET todayPrefix == todayPrefixOf(today)
    IN  IF Len(currentSerialStr) = 10 /\ startsWith(currentSerialStr, todayPrefix)
        THEN toString(toNumber(currentSerialStr) + 1)
        ELSE parseInt(todayPrefix \o <<"0", "1">>)

SOA_MIN_TTL == 300

SOA_TTL == 3600

soaContent(serialStr) ==
    <<"ns1.is-an.ai.", " ", "hostmaster.is-an.ai.", " ">> \o serialStr
        \o <<" ", "10800", " ", "3600", " ", "604800", " ">> \o toString(SOA_MIN_TTL)

soaOperation(serialStr) ==
    PatchRRSet(<<ZONE>>, "SOA", SOA_TTL, "REPLACE",
               <<PatchRecord(soaContent(serialStr), undefined)>>)

\* ------------------------------------------------------------------------
\* Incremental update (processChanges)
\* ------------------------------------------------------------------------

\* [...new Set(list)]
RECURSIVE dedupe(_)
dedupe(list) ==
    IF Len(list) = 0 THEN <<>>
    ELSE LET n    == Len(list)
             prev == dedupe(SubSeq(list, 1, n - 1))
         IN  IF list[n] \in Range(prev) THEN prev ELSE Append(prev, list[n])

\* Variant: when the request fails the script goes by what the zone holds.
getSubdomainRRSetsRegardless(zoneRRSets, subdomain, readFails) ==
    LET AtName(rr) == /\ toLowerCaseName(rr.name) = subdomainToFqdn(subdomain)
                      /\ rr.type # "SOA" /\ rr.type # "NS"
    IN  SelectSeq(zoneRRSets, AtName)

\* getSubdomainRRSets: the RRSets at the subdomain's FQDN, SOA and NS left
\* out; an empty list when the request fails.
getSubdomainRRSets(zoneRRSets, subdomain, readFails) ==
    LET AtName(rr) == /\ toLowerCaseName(rr.name) = subdomainToFqdn(subdomain)
                      /\ rr.type # "SOA" /\ rr.type # "NS"
    IN  IF readFails THEN <<>> ELSE SelectSeq(zoneRRSets, AtName)

\* loadRecordFile: no signatures for a missing or unparsable file or an
\* upper-case name.
loadRecordFile(tree, filename) ==
    LET subdomain == getSubdomainFromPath(filename)
    IN  IF ~\E f \in Range(tree) : f.name = filename THEN <<>>
        ELSE LET file == CHOOSE f \in Range(tree) : f.name = filename
             IN  IF file.parse # "ok" THEN <<>>
                 ELSE IF subdomain # toLowerCaseName(subdomain) THEN <<>>
                 ELSE signaturesOfRecords(subdomain, file.record)

deleteOperations(rrsets) ==
    [i \in 1..Len(rrsets) |->
        PatchRRSet(rrsets[i].name, rrsets[i].type, DEFAULT_TTL, "DELETE", <<>>)]

\* Step 1: one DELETE per RRSet the provider holds at each deleted file's name.
RECURSIVE deletionPass(_, _, _)
deletionPass(deletedFiles, zoneRRSets, failedReads) ==
    IF Len(deletedFiles) = 0 THEN [payload |-> <<>>, processed |-> {}]
    ELSE LET n         == Len(deletedFiles)
             prev      == deletionPass(SubSeq(deletedFiles, 1, n - 1), zoneRRSets, failedReads)
             subdomain == getSubdomainFromPath(deletedFiles[n])
         IN  IF subdomain \in prev.processed THEN prev
             ELSE [payload   |-> prev.payload \o deleteOperations(
                                     getSubdomainRRSets(zoneRRSets, subdomain,
                                                        subdomain \in failedReads)),
                   processed |-> prev.processed \cup {subdomain}]

\* The CNAME -> ALIAS decision of the incremental update.
finalTypeUpdate(subdomain, type, existingTypes) ==
    IF type # "CNAME" THEN type
    ELSE IF subdomain = APEX THEN "ALIAS"
    ELSE IF Len(existingTypes) > 0 /\ "CNAME" \notin Range(existingTypes) THEN "ALIAS"
    ELSE "CNAME"

hasIPInFile(newRecords) == \E r \in Range(newRecords) : r.type \in {"A", "AAAA"}

\* Step 2, one type of one file: the cleanup DELETEs and the REPLACE.
typeOperations(subdomain, newRecords, existingTypes, type) ==
    LET fqdn         == subdomainToFqdn(subdomain)
        OfType(r)    == r.type = type
        records      == SelectSeq(newRecords, OfType)
        finalRecords == IF type = "CNAME" /\ Len(records) > 1 THEN <<records[1]>> ELSE records
        finalType    == finalTypeUpdate(subdomain, type, existingTypes)
        Conflict(t)  == t # "CNAME"
        conflicting  == SelectSeq(existingTypes, Conflict)
        cleanup      == IF type = "CNAME" /\ finalType = "CNAME"
                        THEN [i \in 1..Len(conflicting) |->
                                 PatchRRSet(fqdn, conflicting[i], DEFAULT_TTL, "DELETE", <<>>)]
                        ELSE <<>>
    IN  IF type = "CNAME" /\ hasIPInFile(newRecords) THEN <<>>
        ELSE cleanup \o
             <<PatchRRSet(fqdn, finalType, DEFAULT_TTL, "REPLACE",
                          [i \in 1..Len(finalRecords) |->
                              PatchRecord(normalizeContentUpdate(finalRecords[i].type,
                                                                 finalRecords[i].content),
                                          finalRecords[i].priority)])>>

fileOperations(subdomain, newRecords, existingRRSets) ==
    LET existingTypes == dedupe([i \in 1..Len(existingRRSets) |-> existingRRSets[i].type])
        types         == dedupe([i \in 1..Len(newRecords) |-> newRecords[i].type])
    IN  Flatten([i \in 1..Len(types) |->
                    typeOperations(subdomain, newRecords, existingTypes, types[i])])

\* Step 2: the added and modified files, after the deletions.
RECURSIVE updatePass(_, _, _, _, _)
updatePass(filesToProcess, tree, zoneRRSets, failedReads, start) ==
    IF Len(filesToProcess) = 0 THEN start
    ELSE LET n          == Len(filesToProcess)
             prev       == updatePass(SubSeq(filesToProcess, 1, n - 1), tree, zoneRRSets,
                                      failedReads, start)
             subdomain  == getSubdomainFromPath(filesToProcess[n])
             newRecords == loadRecordFile(tree, filesToProcess[n])
         IN  IF subdomain \in prev.processed THEN prev
             ELSE IF Len(newRecords) = 0 THEN prev
             ELSE [payload   |-> prev.payload \o fileOperations(subdomain, newRecords,
                                     getSubdomainRRSets(zoneRRSets, subdomain,
                                                        subdomain \in failedReads)),
                   processed |-> prev.processed \cup {subdomain}]

\* Variant: nothing is filtered out.
filterNothing(payload) == payload

\* Step 3: DELETEs of protected names are filtered out.
filterProtectedUpdate(payload) ==
    LET Keep(item) ==
            ~(/\ \E p \in PROTECTED_DOMAINS_UPDATE : normName(p) = normName(item.name)
              /\ item.changetype = "DELETE")
    IN  SelectSeq(payload, Keep)

\* processChanges up to the payload handed to the PATCH (empty: no PATCH).
UpdatePlan(changes, tree, zoneRRSets, failedReads, soaFails, today) ==
    LET patchPayload  == updatePass(dedupe(changes.added \o changes.modified), tree,
                                    zoneRRSets, failedReads,
                                    deletionPass(changes.deleted, zoneRRSets,
                                                 failedReads)).payload
        finalPayload  == filterProtectedUpdate(patchPayload)
        currentSerial == getCurrentSoaSerial(zoneRRSets, soaFails)
        newSerial     == newSerialOf(currentSerial, today)
    IN  IF finalPayload = <<>>
        THEN [patchPayload |-> patchPayload, currentSerial |-> <<>>, newSerial |-> <<>>,
              failedReads |-> failedReads, finalPayload |-> <<>>]
        ELSE [patchPayload |-> patchPayload, currentSerial |-> currentSerial,
              newSerial |-> newSerial, failedReads |-> failedReads,
              finalPayload |-> Append(finalPayload, soaOperation(newSerial))]

\* ------------------------------------------------------------------------
\* Incremental update, earlier version of the script
\* ------------------------------------------------------------------------

subdomainToFqdnLegacy(subdomain) ==
    IF subdomain = APEX THEN <<ZONE>> ELSE subdomain \o <<ZONE>>

getSubdomainRRSetsLegacy(zoneRRSets, subdomain, readFails) ==
    LET AtName(rr) == /\ rr.name = subdomainToFqdnLegacy(subdomain)
                      /\ rr.type # "SOA" /\ rr.type # "NS"
    IN  IF readFails THEN <<>> ELSE SelectSeq(zoneRRSets, AtName)

RECURSIVE signaturesOfRecordsLegacy(_, _)
signaturesOfRecordsLegacy(subdomain, record) ==
    IF Len(record) = 0 THEN <<>>
    ELSE LET def  == record[1]
             type == toUpperCase(def.type)
             rest == signaturesOfRecordsLegacy(subdomain, Tail(record))
         IN  IF type = "MX" /\ def.kind = "mx"
             THEN <<Sig(subdomain, type, def.value, def.priority)>> \o rest
             ELSE IF def.kind = "string"
             THEN <<Sig(subdomain, type, def.value, undefined)>> \o rest
             ELSE rest

loadRecordFileLegacy(tree, filename) ==
    IF ~\E f \in Range(tree) : f.name = filename THEN <<>>
    ELSE LET file == CHOOSE f \in Range(tree) : f.name = filename
         IN  IF file.parse # "ok" THEN <<>>
             ELSE signaturesOfRecordsLegacy(getSubdomainFromPath(filename), file.record)

RECURSIVE deletionPassLegacy(_, _, _)
deletionPassLegacy(deletedFiles, zoneRRSets, failedReads) ==
    IF Len(deletedFiles) = 0 THEN [payload |-> <<>>, processed |-> {}]
    ELSE LET n         == Len(deletedFiles)
             prev      == deletionPassLegacy(SubSeq(deletedFiles, 1, n - 1), zoneRRSets,
                                             failedReads)
             subdomain == getSubdomainFromPath(deletedFiles[n])
         IN  IF subdomain \in prev.processed THEN prev
             ELSE [payload   |-> prev.payload \o deleteOperations(
                                     getSubdomainRRSetsLegacy(zoneRRSets, subdomain,
                                                              subdomain \in failedReads)),
                   processed |-> prev.processed \cup {subdomain}]

\* One REPLACE per type of the file, typed and filled as authored.
fileOperationsLegacy(subdomain, desiredRecords) ==
    LET types == dedupe([i \in 1..Len(desiredRecords) |-> desiredRecords[i].type])
        OfType(t) == LET Is(r) == r.type = t IN SelectSeq(desiredRecords, Is)
    IN  [i \in 1..Len(types) |->
            PatchRRSet(subdomainToFqdnLegacy(subdomain), types[i], DEFAULT_TTL, "REPLACE",
                       [j \in 1..Len(OfType(types[i])) |->
                           PatchRecord(OfType(types[i])[j].content,
                                       OfType(types[i])[j].priority)])]

RECURSIVE updatePassLegacy(_, _, _)
updatePassLegacy(filesToProcess, tree, start) ==
    IF Len(filesToProcess) = 0 THEN start
    ELSE LET n              == Len(filesToProcess)
             prev           == updatePassLegacy(SubSeq(filesToProcess, 1, n - 1), tree, start)
             subdomain      == getSubdomainFromPath(filesToProcess[n])
             desiredRecords == loadRecordFileLegacy(tree, filesToProcess[n])
         IN  IF subdomain \in prev.processed THEN prev
             ELSE IF Len(desiredRecords) = 0 THEN prev
             ELSE [payload   |-> prev.payload \o fileOperationsLegacy(subdomain, desiredRecords),
                   processed |-> prev.processed \cup {subdomain}]

\* The earlier processChanges: no CNAME policy, no protected names, no SOA.
LegacyPlan(changes, tree, zoneRRSets, failedReads) ==
    [failedReads |-> failedReads,
     finalPayload |->
        updatePassLegacy(dedupe(changes.added \o changes.modified), tree,
                         deletionPassLegacy(changes.deleted, zoneRRSets, failedReads)).payload]

\* ------------------------------------------------------------------------
\* Full-zone sync, earlier version of the script (src/unnamed/part_002)
\* ------------------------------------------------------------------------

\* loadAllRepositoryRecords of the earlier sync: values are taken as authored
\* (the record loop is the one of the earlier update), a file that does not
\* parse is skipped.
RECURSIVE loadAllRepositoryRecordsEarlier(_)
loadAllRepositoryRecordsEarlier(jsonFiles) ==
    IF Len(jsonFiles) = 0 THEN <<>>
    ELSE LET n         == Len(jsonFiles)
             file      == jsonFiles[n]
             recordMap == loadAllRepositoryRecordsEarlier(SubSeq(jsonFiles, 1, n - 1))
             subdomain == getSubdomainFromPath(file.name)
         IN  IF subdomain = <<>> THEN recordMap
             ELSE IF file.parse # "ok" THEN recordMap
             ELSE MapSet(recordMap, subdomain,
                         signaturesOfRecordsLegacy(subdomain, file.record))

\* Step 5 of the earlier sync, one changed RRSet key: a REPLACE with the
\* records of the repository as loaded, or a DELETE.
rrsetOperationsEarlier(repositoryRecordsMap, subdomain, type) ==
    LET fqdn       == subdomainToFqdnLegacy(subdomain)
        OfType(r)  == r.type = type
        allRecords == IF MapHas(repositoryRecordsMap, subdomain)
                      THEN MapGet(repositoryRecordsMap, subdomain) ELSE <<>>
        repoRecordsForRrset == SelectSeq(allRecords, OfType)
    IN  IF Len(repoRecordsForRrset) > 0
        THEN <<PatchRRSet(fqdn, type, DEFAULT_TTL, "REPLACE",
                          [i \in 1..Len(repoRecordsForRrset) |->
                              PatchRecord(repoRecordsForRrset[i].content,
                                          repoRecordsForRrset[i].priority)])>>
        ELSE <<PatchRRSet(fqdn, type, DEFAULT_TTL, "DELETE", <<>>)>>

\* syncDNSRecords of the earlier sync from the two loaded states to the
\* payload: the same diff, no CNAME policy, no sort, no protected FQDNs.
SyncPlanEarlier(pdnsRRSets, repositoryRecordsMap) ==
    LET pdnsSignatures       == pdnsSignaturesOf(pdnsRRSets)
        repositorySignatures == repositorySignaturesOf(repositoryRecordsMap)
        toCreate             == toCreateOf(repositorySignatures, pdnsSignatures)
        toDelete             == toDeleteOf(repositorySignatures, pdnsSignatures)
        changedRrsetKeys     == addRrsetKeys(seedChangedRrsetKeys(repositoryRecordsMap),
                                             toDelete)
        patchPayload         == Flatten([i \in 1..Len(changedRrsetKeys) |->
                                    rrsetOperationsEarlier(repositoryRecordsMap,
                                                           changedRrsetKeys[i][2].subdomain,
                                                           changedRrsetKeys[i][2].type)])
    IN  [desired        |-> MapKeys(repositorySignatures),
         actual         |-> MapKeys(pdnsSignatures),
         toCreate       |-> toCreate,
         toDelete       |-> toDelete,
         protectedCount |-> protectedCountOf(repositorySignatures, pdnsSignatures),
         changed        |-> MapKeys(changedRrsetKeys),
         patchPayload   |-> patchPayload,
         finalPayload   |-> patchPayload]

\* ------------------------------------------------------------------------
\* Cloudflare full-zone sync (per-record create and delete)
\* ------------------------------------------------------------------------

\* ttl: 1 (Auto TTL), what both Cloudflare scripts create records with.
AUTO_TTL == 1

CfRecord(id, name, type, content, priority) ==
    [id |-> id, name |-> name, type |-> type, content |-> content, priority |-> priority,
     ttl |-> AUTO_TTL]

\* fetchAllCloudflareRecords on success: names under the zone, the apex excluded.
fetchAllCloudflareRecords(cfRecords) ==
    LET Managed(record) == Len(record.name) > 1 /\ record.name[Len(record.name)] = ZONE
    IN  SelectSeq(cfRecords, Managed)

\* record.name.replace(`.${BASE_DOMAIN}`, ""): the first zone label after the
\* first label is taken out.
RECURSIVE removeFirstZone(_)
removeFirstZone(rest) ==
    IF Len(rest) = 0 THEN <<>>
    ELSE IF Head(rest) = ZONE THEN Tail(rest)
    ELSE <<Head(rest)>> \o removeFirstZone(Tail(rest))

convertCloudflareToSignature(record) ==
    Sig(<<Head(record.name)>> \o removeFirstZone(Tail(record.name)), record.type,
        record.content, IF record.type = "MX" THEN record.priority ELSE undefined)

\* getSubdomainFromPath of the Cloudflare sync: the apex has no name of its own.
getSubdomainFromPathCloudflare(filename) ==
    IF Len(filename) > 1 /\ filename[Len(filename)] = ZONE
    THEN SubSeq(filename, 1, Len(filename) - 1)
    ELSE filename

\* The loop over fileData.record of the Cloudflare loader: no content check.
RECURSIVE signaturesOfRecordsCloudflare(_, _)
signaturesOfRecordsCloudflare(subdomain, record) ==
    IF Len(record) = 0 THEN <<>>
    ELSE LET def  == record[1]
             type == toUpperCase(def.type)
             rest == signaturesOfRecordsCloudflare(subdomain, Tail(record))
         IN  IF type = "MX" /\ def.kind = "mx"
             THEN <<Sig(subdomain, type, def.value, def.priority)>> \o rest
             ELSE IF def.kind = "string"
             THEN <<Sig(subdomain, type, def.value, undefined)>> \o rest
             ELSE rest

\* loadAllRepositoryRecords of the Cloudflare sync: unparsable files are skipped.
RECURSIVE loadAllRepositoryRecordsCloudflare(_)
loadAllRepositoryRecordsCloudflare(jsonFiles) ==
    IF Len(jsonFiles) = 0 THEN <<>>
    ELSE LET n         == Len(jsonFiles)
             file      == jsonFiles[n]
             recordMap == loadAllRepositoryRecordsCloudflare(SubSeq(jsonFiles, 1, n - 1))
             subdomain == getSubdomainFromPathCloudflare(file.name)
         IN  IF file.parse # "ok" THEN recordMap
             ELSE MapSet(recordMap, subdomain,
                         signaturesOfRecordsCloudflare(subdomain, file.record))

HexDigits ==
    Digits \cup {"a", "b", "c", "d", "e", "f", "A", "B", "C", "D", "E", "F"}

\* /^([0-9a-fA-F]{1,4}:){7}[0-9a-fA-F]{1,4}$|^::1$|^::$/
ipv6Regex(s) ==
    LET groups == split(s, <<":">>)
    IN  \/ s = <<":", ":", "1">>
        \/ s = <<":", ":">>
        \/ /\ Len(groups) = 8
           /\ \A i \in 1..8 :
                 /\ Len(groups[i]) \in 1..4
                 /\ \A j \in 1..Len(groups[i]) : groups[i][j] \in HexDigits

\* (?:25[0-5]|2[0-4][0-9]|[01]?[0-9][0-9]?)
octetRegex(o) ==
    /\ allDigits(o)
    /\ \/ Len(o) <= 2
       \/ Len(o) = 3 /\ o[1] \in {"0", "1"}
       \/ Len(o) = 3 /\ o[1] = "2" /\ o[2] \in {"0", "1", "2", "3", "4"}
       \/ Len(o) = 3 /\ o[1] = "2" /\ o[2] = "5" /\ o[3] \in {"0", "1", "2", "3", "4", "5"}

\* The IPv4 pattern of validateRecordContent: four octets of 0..255.
ipv4RegexStrict(s) ==
    LET parts == split(s, <<".">>)
    IN  Len(parts) = 4 /\ \A i \in 1..4 : octetRegex(parts[i])

MAX_TXT_LENGTH == 255

MAX_PRIORITY == 65535

\* validateRecordContent(signature) === null
validateRecordContent(signature) ==
    CASE signature.type = "A" -> ipv4RegexStrict(signature.content)
      [] signature.type = "AAAA" -> ipv6Regex(signature.content)
      [] signature.type = "CNAME" -> signature.content # <<>>
      [] signature.type = "TXT" -> Len(signature.content) <= MAX_TXT_LENGTH
      [] signature.type = "MX" ->
            /\ signature.priority # undefined
            /\ signature.priority # NaN
            /\ Head(signature.priority) # "-"
            /\ toNumber(signature.priority) # 0
            /\ toNumber(signature.priority) <= MAX_PRIORITY
      [] OTHER -> TRUE

\* The diff of the Cloudflare sync.
CloudflarePlan(cfRecords, repositoryRecordsMap) ==
    LET cloudflareRecords    == fetchAllCloudflareRecords(cfRecords)
        signatures           == [i \in 1..Len(cloudflareRecords) |->
                                    convertCloudflareToSignature(cloudflareRecords[i])]
        withRecord           == [i \in 1..Len(cloudflareRecords) |->
                                    [subdomain |-> signatures[i].subdomain,
                                     type      |-> signatures[i].type,
                                     content   |-> signatures[i].content,
                                     priority  |-> signatures[i].priority,
                                     id        |-> cloudflareRecords[i].id]]
        cloudflareSignatures == signatureMap(withRecord)
        repositorySignatures == repositorySignaturesOf(repositoryRecordsMap)
        Missing(sig) == ~MapHas(cloudflareSignatures, createRecordSignature(sig))
        Orphan(sig)  == ~MapHas(repositorySignatures, createRecordSignature(sig))
    IN  [desired  |-> MapKeys(repositorySignatures),
         actual   |-> MapKeys(cloudflareSignatures),
         toCreate |-> SelectSeq(MapValues(repositorySignatures), Missing),
         toDelete |-> SelectSeq(MapValues(cloudflareSignatures), Orphan)]

\* cf.dns.records.create: the record is stored under the zone with a new id.
createDNSRecord(cfRecords, signature) ==
    LET ids == {cfRecords[i].id : i \in 1..Len(cfRecords)} \cup {0}
        id  == 1 + CHOOSE m \in ids : \A k \in ids : k <= m
    IN  Append(cfRecords, CfRecord(id, signature.subdomain \o <<ZONE>>, signature.type,
                                   signature.content, signature.priority))

\* cf.dns.records.delete(recordId)
deleteDNSRecord(cfRecords, recordId) ==
    LET Other(record) == record.id # recordId
    IN  SelectSeq(cfRecords, Other)

\* createDNSRecord of the sync: an invalid record is refused before any call,
\* DRY_RUN returns before the call, a rejected call leaves the zone as it is.
tryCreateDNSRecord(cfRecords, signature, dry, callFails) ==
    IF ~validateRecordContent(signature)
    THEN [success |-> FALSE, called |-> FALSE, records |-> cfRecords]
    ELSE IF dry THEN [success |-> TRUE, called |-> FALSE, records |-> cfRecords]
    ELSE IF callFails THEN [success |-> FALSE, called |-> TRUE, records |-> cfRecords]
    ELSE [success |-> TRUE, called |-> TRUE, records |-> createDNSRecord(cfRecords, signature)]

\* deleteDNSRecord of the sync: DRY_RUN returns before the call; a 404 (the
\* record is no longer there) counts as success.
tryDeleteDNSRecord(cfRecords, recordId, dry, callFails) ==
    IF dry THEN [success |-> TRUE, called |-> FALSE, records |-> cfRecords]
    ELSE IF callFails THEN [success |-> FALSE, called |-> TRUE, records |-> cfRecords]
    ELSE [success |-> TRUE, called |-> TRUE, records |-> deleteDNSRecord(cfRecords, recordId)]

NoneDone(cfRecords) ==
    [records |-> cfRecords, attempted |-> <<>>, successCount |-> 0, failureCount |-> 0,
     calls |-> 0, failedCalls |-> 0]

\* One pass of a write loop folded into the counters of the passes after it.
Counted(i, result, dry, rest) ==
    [records      |-> rest.records,
     attempted    |-> <<i>> \o rest.attempted,
     successCount |-> rest.successCount + (IF result.success /\ ~dry THEN 1 ELSE 0),
     failureCount |-> rest.failureCount + (IF ~result.success THEN 1 ELSE 0),
     calls        |-> rest.calls + (IF result.called THEN 1 ELSE 0),
     failedCalls  |-> rest.failedCalls + (IF result.called /\ ~result.success THEN 1 ELSE 0)]

\* Variant: the loop ends at the first record that fails.
RECURSIVE createAllUntilFailure(_, _, _, _, _)
createAllUntilFailure(cfRecords, toCreate, failed, dry, i) ==
    IF i > Len(toCreate) THEN NoneDone(cfRecords)
    ELSE LET result == tryCreateDNSRecord(cfRecords, toCreate[i], dry, i \in failed)
         IN  Counted(i, result, dry,
                     IF result.success
                     THEN createAllUntilFailure(result.records, toCreate, failed, dry, i + 1)
                     ELSE NoneDone(result.records))

\* The create loop: every record of toCreate in turn, whatever the outcome
\* of the ones before it.
RECURSIVE createAll(_, _, _, _, _)
createAll(cfRecords, toCreate, failed, dry, i) ==
    IF i > Len(toCreate) THEN NoneDone(cfRecords)
    ELSE LET result == tryCreateDNSRecord(cfRecords, toCreate[i], dry, i \in failed)
         IN  Counted(i, result, dry,
                     createAll(result.records, toCreate, failed, dry, i + 1))

\* The delete loop: every record of toDelete in turn.
RECURSIVE deleteAll(_, _, _, _, _)
deleteAll(cfRecords, toDelete, failed, dry, i) ==
    IF i > Len(toDelete) THEN NoneDone(cfRecords)
    ELSE LET result == tryDeleteDNSRecord(cfRecords, toDelete[i].id, dry, i \in failed)
         IN  Counted(i, result, dry,
                     deleteAll(result.records, toDelete, failed, dry, i + 1))

\* fetchAllCloudflareRecords: a failed list request is thrown on.
fetchCloudflare(cfRecords, readFails) ==
    IF readFails THEN [threw |-> TRUE, records |-> <<>>]
    ELSE [threw |-> FALSE, records |-> fetchAllCloudflareRecords(cfRecords)]

\* ------------------------------------------------------------------------
\* Cloudflare incremental update (update-cloudflare-dns.ts)
\* ------------------------------------------------------------------------

\* What a run has done so far: the zone's records, the provider calls in the
\* order they were made, and how many list and write calls that is.
Started(cfRecords) == [records |-> cfRecords, io |-> <<>>, reads |-> 0, writes |-> 0]

\* A provider call: ids are the records a list call returned, or the record
\* a delete or update call names.
Call(op, subdomain, failed, ids) ==
    [op |-> op, subdomain |-> subdomain, failed |-> failed, ids |-> ids]

\* getExistingRecords: the records whose name is exactly subdomain.BASE_DOMAIN;
\* an empty list when the request fails.
getExistingRecords(st, subdomain, failedReads) ==
    LET n == st.reads + 1
        Named(record) == record.name = subdomain \o <<ZONE>>
        result == IF n \in failedReads THEN <<>> ELSE SelectSeq(st.records, Named)
    IN  [st     |-> [st EXCEPT !.reads = n,
                               !.io = Append(@, Call("list", subdomain, n \in failedReads,
                                                     {result[i].id : i \in 1..Len(result)}))],
         result |-> result]

\* cf.dns.records.update(id, {ttl}): the record's TTL becomes the payload's.
updateDNSRecord(cfRecords, recordId) ==
    [i \in 1..Len(cfRecords) |->
        IF cfRecords[i].id = recordId THEN [cfRecords[i] EXCEPT !.ttl = AUTO_TTL]
        ELSE cfRecords[i]]

\* One write call: made, logged, and applied unless the provider rejects it
\* (the scripts catch the error and go on).
writeCall(st, op, subdomain, ids, failedWrites, applied) ==
    LET n == st.writes + 1
    IN  [st EXCEPT !.writes = n,
                   !.io = Append(@, Call(op, subdomain, n \in failedWrites, ids)),
                   !.records = IF n \in failedWrites THEN @ ELSE applied]

\* Promise.all(records.map((record) => deleteDNSRecord(record.id)))
RECURSIVE deleteRecords(_, _, _, _)
deleteRecords(st, subdomain, records, failedWrites) ==
    IF Len(records) = 0 THEN st
    ELSE deleteRecords(writeCall(st, "delete", subdomain, {records[1].id}, failedWrites,
                                 deleteDNSRecord(st.records, records[1].id)),
                       subdomain, Tail(records), failedWrites)

\* The switch of createOrUpdateDNSRecord: the types it handles, each with
\* the value shape it needs; anything else returns before any call.
handledValue(recordType, def) ==
    \/ recordType \in {"A", "AAAA", "CNAME", "TXT"} /\ def.kind = "string"
    \/ recordType = "MX" /\ def.kind = "mx"

\* createOrUpdateDNSRecord after its list call returned: a record of the same
\* type, content and priority gets its TTL updated when it differs, and is
\* created when there is none.
createOrUpdateFound(st, subdomain, recordType, def, existingRecords, failedWrites) ==
    LET priority   == IF recordType = "MX" THEN def.priority ELSE undefined
        Matches(r) == /\ r.type = recordType
                      /\ r.content = def.value
                      /\ r.type = "MX" => r.priority = priority
        found      == SelectSeq(existingRecords, Matches)
    IN  IF Len(found) > 0
        THEN IF found[1].ttl # AUTO_TTL
             THEN writeCall(st, "update", subdomain, {found[1].id}, failedWrites,
                            updateDNSRecord(st.records, found[1].id))
             ELSE st
        ELSE writeCall(st, "create", subdomain, {}, failedWrites,
                       createDNSRecord(st.records,
                                       Sig(subdomain, recordType, def.value, priority)))

\* The part of a task that follows its list call.
afterList(st, task, existingRecords, failedWrites) ==
    IF task.kind = "deletion"
    THEN deleteRecords(st, task.subdomain, existingRecords, failedWrites)
    ELSE createOrUpdateFound(st, task.subdomain, task.type, task.def, existingRecords,
                             failedWrites)

\* The tasks of one Promise.all when each list call is answered only after
\* the task before it has finished.
RECURSIVE inTurn(_, _, _, _)
inTurn(st, tasks, failedReads, failedWrites) ==
    IF Len(tasks) = 0 THEN st
    ELSE LET listed == getExistingRecords(st, tasks[1].subdomain, failedReads)
         IN  inTurn(afterList(listed.st, tasks[1], listed.result, failedWrites),
                    Tail(tasks), failedReads, failedWrites)

\* The list calls of all tasks of one Promise.all, answered before any of
\* their writes.
RECURSIVE listAll(_, _, _)
listAll(st, tasks, failedReads) ==
    IF Len(tasks) = 0 THEN [st |-> st, results |-> <<>>]
    ELSE LET listed == getExistingRecords(st, tasks[1].subdomain, failedReads)
             rest   == listAll(listed.st, Tail(tasks), failedReads)
         IN  [st |-> rest.st, results |-> <<listed.result>> \o rest.results]

RECURSIVE afterListAll(_, _, _, _)
afterListAll(st, tasks, results, failedWrites) ==
    IF Len(tasks) = 0 THEN st
    ELSE afterListAll(afterList(st, tasks[1], results[1], failedWrites),
                      Tail(tasks), Tail(results), failedWrites)

\* Promise.all over tasks that each list and then write: the tasks start
\* together, so their list calls may all be answered before the first write
\* (overlap) or one task may finish before the next is answered.
promiseAll(st, tasks, overlap, failedReads, failedWrites) ==
    IF overlap
    THEN LET listed == listAll(st, tasks, failedReads)
         IN  afterListAll(listed.st, tasks, listed.results, failedWrites)
    ELSE inTurn(st, tasks, failedReads, failedWrites)

\* Step 1: every record at the name of each deleted file is deleted.
deletionTasks(deleted) ==
    [i \in 1..Len(deleted) |->
        [kind |-> "deletion", subdomain |-> getSubdomainFromPathCloudflare(deleted[i])]]

\* The signature of a desired record, or of an existing one.
updateSignature(type, content, priority) ==
    <<type, content, IF type = "MX" THEN priority ELSE undefined>>

\* The record definitions of a file that get a signature: MX objects and
\* string values.
Signed(def) ==
    \/ toUpperCase(def.type) = "MX" /\ def.kind = "mx"
    \/ def.kind = "string"

\* The createOrUpdateDNSRecord calls queued for a file, those that return
\* before any provider call left out.
upsertTasks(subdomain, record) ==
    LET Handled(def) == Signed(def) /\ handledValue(toUpperCase(def.type), def)
        defs         == SelectSeq(record, Handled)
    IN  [i \in 1..Len(defs) |->
            [kind |-> "upsert", subdomain |-> subdomain,
             type |-> toUpperCase(defs[i].type), def |-> defs[i]]]

\* One added or modified file: its records are created or updated, and for a
\* modified file the records listed at the start that the file does not hold
\* are deleted. A file that cannot be read or parsed is skipped.
processFile(st, tree, filename, isModification, overlap, failedReads, failedWrites) ==
    IF ~\E f \in Range(tree) : f.name = filename /\ f.parse = "ok" THEN st
    ELSE LET file      == CHOOSE f \in Range(tree) : f.name = filename
             subdomain == getSubdomainFromPathCloudflare(filename)
             listed    == getExistingRecords(st, subdomain, failedReads)
             signed    == SelectSeq(file.record, Signed)
             desiredRecordSignatures ==
                 {updateSignature(toUpperCase(signed[i].type), signed[i].value,
                                  IF signed[i].kind = "mx" THEN signed[i].priority
                                  ELSE undefined) : i \in 1..Len(signed)}
             NotInFile(r) == updateSignature(r.type, r.content, r.priority)
                                 \notin desiredRecordSignatures
             upserted  == promiseAll(listed.st, upsertTasks(subdomain, file.record),
                                     overlap, failedReads, failedWrites)
         IN  IF isModification
             THEN deleteRecords(upserted, subdomain, SelectSeq(listed.result, NotInFile),
                                failedWrites)
             ELSE upserted

RECURSIVE processFiles(_, _, _, _, _, _, _)
processFiles(st, tree, filesToProcess, modified, overlap, failedReads, failedWrites) ==
    IF Len(filesToProcess) = 0 THEN st
    ELSE processFiles(processFile(st, tree, filesToProcess[1],
                                  filesToProcess[1] \in Range(modified),
                                  overlap, failedReads, failedWrites),
                      tree, Tail(filesToProcess), modified, overlap, failedReads,
                      failedWrites)

\* processChanges of the Cloudflare update: deletions, then the added and
\* modified files one after the other.
processChangesCloudflare(cfRecords, tree, chg, overlap, failedReads, failedWrites) ==
    processFiles(promiseAll(Started(cfRecords), deletionTasks(chg.deleted), overlap,
                            failedReads, failedWrites),
                 tree, dedupe(chg.added \o chg.modified), chg.modified, overlap,
                 failedReads, failedWrites)

\* ------------------------------------------------------------------------
\* Bounded inputs
\* ------------------------------------------------------------------------

MaxFiles == 2

MaxRRSets == 2

MaxRuns == 2

MaxUpdateRuns == 1

MaxSerialRuns == 2

MaxFailedReads == 1

MaxDays == 2

MaxFailedWrites == 1

\* The list calls, and the writes, of one run that may be chosen to fail.
MaxCalls == 6

IP1 == <<"1", ".", "2", ".", "3", ".", "4">>
IP1Zero == <<"0", "1", ".", "2", ".", "3", ".", "4">>
IP9 == <<"9", ".", "9", ".", "9", ".", "9">>
Host == <<"host.example.com">>
HostDot == <<"host.example.com", ".">>
OtherDot == <<"other.example.com", ".">>
MailDot == <<"mail.example.com", ".">>
TxtRaw == <<"v=1">>
TxtQuoted == <<Quote, "v=1", Quote>>

Def(type, value) == [type |-> type, kind |-> "string", value |-> value, priority |-> undefined]

MxDef(priority, exchange) ==
    [type |-> "MX", kind |-> "mx", value |-> exchange, priority |-> priority]

File(name, record) == [name |-> name, parse |-> "ok", record |-> record]

\* Record files, in directory order.
FileCatalog ==
    << File(<<"x">>, <<Def("A", IP1)>>),
       File(<<"x">>, <<Def("A", IP1Zero)>>),
       File(<<"x">>, <<Def("CNAME", Host)>>),
       File(<<"x">>, <<Def("CNAME", HostDot), Def("A", IP1)>>),
       File(<<"x">>, <<Def("CNAME", HostDot), Def("TXT", TxtRaw)>>),
       File(<<"x">>, <<Def("CNAME", HostDot), Def("CNAME", OtherDot)>>),
       File(<<"x">>, <<MxDef(<<"1", "0">>, MailDot)>>),
       File(<<"x", ZONE>>, <<Def("A", IP9)>>),
       File(<<"y", "x">>, <<Def("A", IP1)>>),
       File(<<ZONE>>, <<Def("CNAME", HostDot)>>),
       File(<<ZONE>>, <<Def("CNAME", HostDot), Def("A", IP1)>>),
       File(<<"www">>, <<Def("A", IP1)>>),
       File(<<"X">>, <<Def("A", IP1)>>),
       [name |-> <<"z">>, parse |-> "bad", record |-> <<>>],
       File(<<"x">>, <<Def("TXT", TxtRaw), Def("CNAME", HostDot)>>),
       File(<<"www">>, <<Def("CNAME", HostDot)>>),
       File(<<"x">>, <<MxDef(<<"0">>, MailDot)>>),
       File(<<"x">>, <<MxDef(<<"6", "5", "5", "3", "5">>, MailDot)>>),
       File(<<"x">>, <<MxDef(<<"6", "5", "5", "3", "6">>, MailDot)>>),
       File(<<"x">>, <<MxDef(<<"-", "1">>, MailDot)>>),
       [name |-> <<"x">>, parse |-> "bad", record |-> <<>>],
       File(<<"x">>, <<Def("A", IP1), Def("A", IP1)>>) >>

\* RRSets a zone may hold besides its SOA.
RRSetCatalog ==
    << RRSet(<<"x", ZONE>>, "A", DEFAULT_TTL, <<IP1>>),
       RRSet(<<"x", ZONE>>, "CNAME", DEFAULT_TTL, <<HostDot>>),
       RRSet(<<"x", ZONE>>, "CNAME", DEFAULT_TTL, <<OtherDot>>),
       RRSet(<<"x", ZONE>>, "ALIAS", DEFAULT_TTL, <<HostDot>>),
       RRSet(<<"x", ZONE>>, "TXT", DEFAULT_TTL, <<TxtQuoted>>),
       RRSet(<<"x", ZONE>>, "MX", DEFAULT_TTL, <<(<<"1", "0", " ">> \o MailDot)>>),
       RRSet(<<"y", "x", ZONE>>, "A", DEFAULT_TTL, <<IP1>>),
       RRSet(<<"old", ZONE>>, "A", DEFAULT_TTL, <<IP1>>),
       RRSet(<<"www", ZONE>>, "A", DEFAULT_TTL, <<IP9>>),
       RRSet(<<"dev", ZONE>>, "A", DEFAULT_TTL, <<IP1>>),
       RRSet(<<"docs", ZONE>>, "A", DEFAULT_TTL, <<IP1>>),
       RRSet(<<"mail", ZONE>>, "A", DEFAULT_TTL, <<IP1>>),
       RRSet(<<ZONE>>, "A", DEFAULT_TTL, <<IP1>>),
       RRSet(<<"www", ZONE>>, "CNAME", DEFAULT_TTL, <<OtherDot>>),
       RRSet(<<ZONE>>, "NS", SOA_TTL, <<(<<"ns1.is-an.ai", ".">>)>>),
       RRSet(<<"x", ZONE>>, "NS", SOA_TTL, <<(<<"ns1.example.com", ".">>)>>) >>

\* Records a Cloudflare zone may hold.
CfCatalog ==
    << CfRecord(1, <<"x", ZONE>>, "A", IP1, undefined),
       CfRecord(2, <<"x", ZONE>>, "CNAME", Host, undefined),
       CfRecord(3, <<"x", ZONE>>, "MX", MailDot, <<"1", "0">>),
       CfRecord(4, <<"www", ZONE>>, "A", IP9, undefined),
       CfRecord(5, <<"dev", ZONE>>, "A", IP1, undefined),
       CfRecord(6, <<"blog", ZONE>>, "A", IP1, undefined),
       CfRecord(7, <<ZONE>>, "A", IP1, undefined),
       [CfRecord(8, <<"x", ZONE>>, "A", IP1, undefined) EXCEPT !.ttl = DEFAULT_TTL] >>

\* The entries of a catalog picked by a set of indexes, in catalog order.
RECURSIVE pick(_, _)
pick(catalog, idx) ==
    IF Len(catalog) = 0 THEN <<>>
    ELSE LET n == Len(catalog)
         IN  pick(SubSeq(catalog, 1, n - 1), idx) \o
             (IF n \in idx THEN <<catalog[n]>> ELSE <<>>)

\* Working trees over part of the catalog: one file per file name.
Trees(among) ==
    {pick(FileCatalog, idx) : idx \in
        {s \in SUBSET among :
            /\ Cardinality(s) <= MaxFiles
            /\ \A i, j \in s : i # j => FileCatalog[i].name # FileCatalog[j].name}}

\* Zone contents over part of the catalog: one RRSet per name and type.
ZoneContents(among) ==
    {pick(RRSetCatalog, idx) : idx \in
        {s \in SUBSET among :
            /\ Cardinality(s) <= MaxRRSets
            /\ \A i, j \in s : i # j =>
                  <<RRSetCatalog[i].name, RRSetCatalog[i].type>> #
                  <<RRSetCatalog[j].name, RRSetCatalog[j].type>>}}

CloudflareContents(among) ==
    {pick(CfCatalog, idx) : idx \in {s \in SUBSET among : Cardinality(s) <= MaxRRSets}}

\* Two families of inputs: records at x, y.x and the apex (CNAME policy and
\* canonical contents), and system names with skipped files (protection).
PolicyFiles == (1..11) \cup {21}
PolicyRRSets == (1..7) \cup {13, 15, 16}
SystemFiles == {1, 12, 13, 14, 16}
SystemRRSets == {1} \cup (8..13)

\* The update scripts are run on parts of the two families.
UpdatePolicyFiles == {1, 3, 4, 5, 6, 8, 10, 11, 15}
UpdatePolicyRRSets == {1, 2, 4, 5, 13, 15, 16}
UpdateSystemFiles == SystemFiles
UpdateSystemRRSets == {1, 9, 10, 11, 14}
LegacyFiles == {1, 3, 8, 10}
LegacyRRSets == {1, 2, 10, 16}
CloudflareFiles == {1, 2, 3, 7, 12, 13, 14, 17, 18, 19, 20, 21}
CloudflareRecords == 1..7
CloudflareUpdateFiles == {1, 3, 4, 12, 22}
EarlierFiles == {1, 3, 7, 12}
EarlierRRSets == {1, 2, 9, 16}
CloudflareUpdateRecords == {1, 2, 4, 8}

Today == [year |-> 2026, month |-> 1, day |-> 5]

Serial(digits) == [i \in 1..Len(digits) |-> digits[i]]

SerialYesterday01 == <<"2", "0", "2", "6", "0", "1", "0", "4", "0", "1">>
SerialToday01 == <<"2", "0", "2", "6", "0", "1", "0", "5", "0", "1">>
SerialToday98 == <<"2", "0", "2", "6", "0", "1", "0", "5", "9", "8">>
SerialToday99 == <<"2", "0", "2", "6", "0", "1", "0", "5", "9", "9">>

\* The zone's SOA RRSet with the given serial.
soaRRSet(serialStr) == RRSet(<<ZONE>>, "SOA", SOA_TTL, <<soaContent(serialStr)>>)

\* Change-sets of a working tree: its first file is listed as added, the
\* others as modified, and at most one file, which the tree no longer has,
\* as deleted.
ChangeSets(tree, deletedNames) ==
    {[added    |-> IF Len(tree) > 0 THEN <<tree[1].name>> ELSE <<>>,
      modified |-> [i \in 1..(Len(tree) - 1) |-> tree[i + 1].name],
      deleted  |-> d] :
        d \in {<<>>} \cup {<<n>> : n \in {m \in deletedNames :
                                            \A k \in 1..Len(tree) : tree[k].name # m}}}

\* Change-sets of the Cloudflare update: every file of the tree is listed as
\* added or as modified, and at most one file the tree no longer has as deleted.
ChangeSetsEither(tree, deletedNames) ==
    LET names == [i \in 1..Len(tree) |-> tree[i].name]
    IN  {[added    |-> SelectSeq(names, LAMBDA n : n \notin m),
          modified |-> SelectSeq(names, LAMBDA n : n \in m),
          deleted  |-> d] :
            m \in SUBSET Range(names),
            d \in {<<>>} \cup {<<n>> : n \in deletedNames \ Range(names)}}

CloudflareDeleted == {<<"x">>, <<"www">>}
PolicyDeleted == {<<"x">>, <<"x", ZONE>>, <<ZONE>>}
SystemDeleted == {<<"www">>, <<"dev">>, <<"docs">>, <<"X">>}
LegacyDeleted == {<<"x">>, <<"dev">>}

\* ------------------------------------------------------------------------
\* State
\* ------------------------------------------------------------------------

VARIABLES
    files,     \* the repository's record files (working tree)
    zone,      \* the RRSets the PowerDNS zone holds
    cf,        \* the records the Cloudflare zone holds
    script,    \* the script the workflow runs: "sync", "earlier", "update",
               \* "legacy", "cloudflare" or "cfupdate"
    dryRun,    \* DRY_RUN of the sync workflow
    changes,   \* ADDED_FILES, MODIFIED_FILES, DELETED_FILES of the update
    today,     \* the calendar day
    budget,    \* runs the workflow may still start
    pc,        \* "idle", or "loaded" between the sync's reads and its PATCH
    loaded,    \* what the sync's Promise.all returned
    log        \* one entry per finished run

vars == <<files, zone, cf, script, dryRun, changes, today, budget, pc, loaded, log>>

NoChanges == [added |-> <<>>, modified |-> <<>>, deleted |-> <<>>]

NothingLoaded == [pdnsRRSets |-> <<>>, repositoryRecordsMap |-> <<>>, readFailed |-> FALSE]

NoRequest == [success |-> TRUE, requests |-> 0, rrsets |-> zone]

\* A finished run: what it computed, whether it sent a PATCH, whether the
\* PATCH failed, and how the run ended (ok: exit 0; a failed PATCH is exit 1).
Entry(plan, result) ==
    [script |-> script, plan |-> plan, batch |-> plan.finalPayload,
     sent |-> result.requests > 0, ok |-> result.success,
     failedCalls |-> IF result.requests > 0 /\ ~result.success THEN 1 ELSE 0,
     before |-> zone, after |-> result.rrsets, day |-> today, dry |-> dryRun,
     readFailed |-> loaded.readFailed]

InitInputs(fileIdx, rrsetIdx, serial) ==
    /\ files \in Trees(fileIdx)
    /\ \E z \in ZoneContents(rrsetIdx) : zone = <<soaRRSet(serial)>> \o z
    /\ cf = <<>>
    /\ today = Today
    /\ pc = "idle"
    /\ loaded = NothingLoaded
    /\ log = <<>>

InitSync ==
    /\ \/ InitInputs(PolicyFiles, PolicyRRSets, SerialYesterday01)
       \/ InitInputs(SystemFiles, SystemRRSets, SerialYesterday01)
    /\ script = "sync"
    /\ dryRun \in BOOLEAN
    /\ budget = IF dryRun THEN 1 ELSE MaxRuns
    /\ changes = NoChanges

InitUpdate ==
    /\ \/ /\ InitInputs(UpdatePolicyFiles, UpdatePolicyRRSets, SerialYesterday01)
          /\ changes \in ChangeSets(files, PolicyDeleted)
          /\ script = "update"
       \/ /\ InitInputs(UpdateSystemFiles, UpdateSystemRRSets, SerialYesterday01)
          /\ changes \in ChangeSets(files, SystemDeleted)
          /\ script = "update"
       \/ /\ InitInputs(LegacyFiles, LegacyRRSets, SerialYesterday01)
          /\ changes \in ChangeSets(files, LegacyDeleted)
          /\ script = "legacy"
    /\ dryRun = FALSE
    /\ budget = MaxUpdateRuns

InitCloudflare ==
    /\ files \in Trees(CloudflareFiles)
    /\ zone = <<>>
    /\ cf \in CloudflareContents(CloudflareRecords)
    /\ script = "cloudflare"
    /\ dryRun \in BOOLEAN
    /\ budget = IF dryRun THEN 1 ELSE MaxRuns
    /\ changes = NoChanges
    /\ today = Today
    /\ pc = "idle"
    /\ loaded = NothingLoaded
    /\ log = <<>>

\* Promise.all([fetchAllPdnsRRSets(), loadAllRepositoryRecords()]): when the
\* provider read throws, the run ends there with exit 1.
SyncLoad ==
    /\ script = "sync" /\ pc = "idle" /\ budget > 0
    /\ \E readFails \in BOOLEAN :
          \E fetched \in {fetchAllPdnsRRSets(zone, readFails)} :
              IF fetched.threw
              THEN /\ log' = Append(log, [Entry(SyncPlan(<<>>, <<>>),
                                                   [NoRequest EXCEPT !.success = FALSE])
                                             EXCEPT !.readFailed = TRUE])
                   /\ budget' = 0
                   /\ UNCHANGED <<pc, loaded>>
              ELSE /\ loaded' = [pdnsRRSets |-> fetched.rrsets,
                                 repositoryRecordsMap |-> loadAllRepositoryRecords(files),
                                 readFailed |-> readFails]
                   /\ pc' = "loaded"
                   /\ budget' = budget - 1
                   /\ UNCHANGED log
    /\ UNCHANGED <<files, zone, cf, script, dryRun, changes, today>>

\* The rest of syncDNSRecords: diff, payload, and executePdnsPatch unless the
\* payload is empty.  A failed PATCH ends the workflow (exit 1).
SyncPatch ==
    /\ script = "sync" /\ pc = "loaded"
    /\ \E plan \in {SyncPlan(loaded.pdnsRRSets, loaded.repositoryRecordsMap)},
          accepted \in BOOLEAN :
          \E result \in {IF plan.finalPayload = <<>>
                         THEN NoRequest
                         ELSE executePdnsPatch(zone, plan.finalPayload, dryRun, accepted)} :
                  /\ result.requests = 0 => accepted
                  /\ zone' = result.rrsets
                  /\ log' = Append(log, Entry(plan, result))
                  /\ budget' = IF result.success THEN budget ELSE 0
    /\ pc' = "idle"
    /\ loaded' = NothingLoaded
    /\ UNCHANGED <<files, cf, script, dryRun, changes, today>>

InitEarlier ==
    /\ InitInputs(EarlierFiles, EarlierRRSets, SerialYesterday01)
    /\ script = "earlier"
    /\ dryRun \in BOOLEAN
    /\ budget = MaxUpdateRuns
    /\ changes = NoChanges

\* syncDNSRecords of the earlier sync, one run: reads (a failed read ends the
\* run with exit 1), diff, payload, and the PATCH unless the payload is empty.
SyncEarlier ==
    /\ script = "earlier" /\ pc = "idle" /\ budget > 0
    /\ \E readFails \in BOOLEAN, accepted \in BOOLEAN :
          \E fetched \in {fetchAllPdnsRRSets(zone, readFails)} :
          \E plan \in {SyncPlanEarlier(fetched.rrsets,
                                       IF fetched.threw THEN <<>>
                                       ELSE loadAllRepositoryRecordsEarlier(files))} :
          \E result \in {IF fetched.threw THEN [NoRequest EXCEPT !.success = FALSE]
                         ELSE IF plan.finalPayload = <<>> THEN NoRequest
                         ELSE executePdnsPatch(zone, plan.finalPayload, dryRun, accepted)} :
              /\ result.requests = 0 => accepted
              /\ zone' = result.rrsets
              /\ log' = Append(log, [Entry(plan, result) EXCEPT !.readFailed = fetched.threw])
              /\ budget' = IF result.success THEN budget - 1 ELSE 0
    /\ UNCHANGED <<files, cf, script, dryRun, changes, today, pc, loaded>>

\* The subdomains a change-set makes the update read from the provider.
touchedSubdomains ==
    {getSubdomainFromPath(f) :
        f \in Range(changes.added) \cup Range(changes.modified) \cup Range(changes.deleted)}

\* processChanges, one run: reads (each may fail), payload, SOA, PATCH.
ProcessChanges ==
    /\ script = "update" /\ pc = "idle" /\ budget > 0
    /\ \E failedReads \in SUBSET touchedSubdomains, soaFails \in BOOLEAN, accepted \in BOOLEAN :
          \E plan \in {UpdatePlan(changes, files, zone, failedReads, soaFails, today)} :
          \E result \in {IF plan.finalPayload = <<>>
                         THEN NoRequest
                         ELSE executePdnsPatchUpdate(zone, plan.finalPayload, accepted)} :
              /\ Cardinality(failedReads) <= MaxFailedReads
              /\ result.requests = 0 => (accepted /\ ~soaFails)
              /\ zone' = result.rrsets
              /\ log' = Append(log, Entry(plan, result))
              /\ budget' = IF result.success THEN budget - 1 ELSE 0
    /\ UNCHANGED <<files, cf, script, dryRun, changes, today, pc, loaded>>

\* The earlier processChanges, one run.
ProcessChangesLegacy ==
    /\ script = "legacy" /\ pc = "idle" /\ budget > 0
    /\ \E failedReads \in SUBSET touchedSubdomains, accepted \in BOOLEAN :
          \E plan \in {LegacyPlan(changes, files, zone, failedReads)} :
          \E result \in {IF plan.finalPayload = <<>>
                         THEN NoRequest
                         ELSE executePdnsPatchUpdate(zone, plan.finalPayload, accepted)} :
              /\ Cardinality(failedReads) <= MaxFailedReads
              /\ result.requests = 0 => accepted
              /\ zone' = result.rrsets
              /\ log' = Append(log, Entry(plan, result))
              /\ budget' = IF result.success THEN budget - 1 ELSE 0
    /\ UNCHANGED <<files, cf, script, dryRun, changes, today, pc, loaded>>

\* What a run of the Cloudflare sync leaves in the log.
CloudflareEntry(plan, creates, deletes, failedCreates, failedDeletes, readFailed, ok) ==
    [script |-> script, plan |-> plan, batch |-> <<>>,
     sent |-> creates.calls + deletes.calls > 0, ok |-> ok,
     before |-> cf, after |-> deletes.records, day |-> today, dry |-> dryRun,
     readFailed |-> readFailed,
     failedCreates |-> failedCreates, failedDeletes |-> failedDeletes,
     attemptedCreates |-> creates.attempted, attemptedDeletes |-> deletes.attempted,
     createSuccessCount |-> creates.successCount,
     createFailureCount |-> creates.failureCount,
     deleteSuccessCount |-> deletes.successCount,
     deleteFailureCount |-> deletes.failureCount,
     failedCalls |-> creates.failedCalls + deletes.failedCalls]

\* syncDNSRecords of the Cloudflare sync, one run: reads (a failed list ends
\* the run with exit 1), diff, then one call per record, each of which may
\* fail without ending the run; the run then ends with exit 0.
CloudflareSync ==
    /\ script = "cloudflare" /\ pc = "idle" /\ budget > 0
    /\ \E readFails \in BOOLEAN :
          \E fetched \in {fetchCloudflare(cf, readFails)} :
          \E plan \in {CloudflarePlan(fetched.records,
                                      IF fetched.threw THEN <<>>
                                      ELSE loadAllRepositoryRecordsCloudflare(files))} :
          \E valid \in {{i \in 1..Len(plan.toCreate) :
                            validateRecordContent(plan.toCreate[i])}} :
              IF fetched.threw
              THEN /\ log' = Append(log, CloudflareEntry(plan, NoneDone(cf), NoneDone(cf),
                                                         {}, {}, TRUE, FALSE))
                   /\ cf' = cf
                   /\ budget' = 0
              ELSE \E failedCreates \in SUBSET valid,
                     failedDeletes \in SUBSET (1..Len(plan.toDelete)) :
                      \E creates \in {createAll(cf, plan.toCreate, failedCreates, dryRun, 1)} :
                      \E deletes \in {deleteAll(creates.records, plan.toDelete,
                                                failedDeletes, dryRun, 1)} :
                          /\ Cardinality(failedCreates) + Cardinality(failedDeletes)
                                <= MaxFailedWrites
                          /\ dryRun => (failedCreates = {} /\ failedDeletes = {})
                          /\ cf' = deletes.records
                          /\ log' = Append(log, CloudflareEntry(plan, creates, deletes,
                                                                failedCreates, failedDeletes,
                                                                FALSE, TRUE))
                          /\ budget' = budget - 1
    /\ UNCHANGED <<files, zone, script, dryRun, changes, today, pc, loaded>>

InitCloudflareUpdate ==
    /\ files \in Trees(CloudflareUpdateFiles)
    /\ zone = <<>>
    /\ cf \in CloudflareContents(CloudflareUpdateRecords)
    /\ script = "cfupdate"
    /\ dryRun = FALSE
    /\ budget = MaxUpdateRuns
    /\ changes \in ChangeSetsEither(files, CloudflareDeleted)
    /\ today = Today
    /\ pc = "idle"
    /\ loaded = NothingLoaded
    /\ log = <<>>

\* What a run of the Cloudflare update leaves in the log; it ends with exit 0
\* whatever its calls returned.
CloudflareUpdateEntry(run, overlap) ==
    [script |-> script, plan |-> changes, batch |-> <<>>,
     sent |-> run.writes > 0, ok |-> TRUE,
     before |-> cf, after |-> run.records, day |-> today, dry |-> dryRun,
     readFailed |-> \E k \in 1..Len(run.io) : run.io[k].op = "list" /\ run.io[k].failed,
     failedCalls |-> Cardinality({k \in 1..Len(run.io) :
                                     run.io[k].op # "list" /\ run.io[k].failed}),
     io |-> run.io, overlap |-> overlap]

\* processChanges of the Cloudflare update, one run; any of its list calls
\* and any of its writes may fail.
ProcessChangesCloudflare ==
    /\ script = "cfupdate" /\ pc = "idle" /\ budget > 0
    /\ \E overlap \in BOOLEAN,
          failedReads \in {s \in SUBSET (1..MaxCalls) : Cardinality(s) <= MaxFailedReads},
          failedWrites \in {s \in SUBSET (1..MaxCalls) : Cardinality(s) <= MaxFailedWrites} :
          \E run \in {processChangesCloudflare(cf, files, changes, overlap, failedReads,
                                               failedWrites)} :
              /\ \A n \in failedReads : n <= run.reads
              /\ \A n \in failedWrites : n <= run.writes
              /\ cf' = run.records
              /\ log' = Append(log, CloudflareUpdateEntry(run, overlap))
              /\ budget' = budget - 1
    /\ UNCHANGED <<files, zone, script, dryRun, changes, today, pc, loaded>>

\* Midnight passes.
NextDay ==
    /\ pc = "idle"
    /\ today.day < Today.day + MaxDays
    /\ today' = [today EXCEPT !.day = @ + 1]
    /\ UNCHANGED <<files, zone, cf, script, dryRun, changes, budget, pc, loaded, log>>

\* Repeated incremental runs over the days, from zones whose SOA carries one
\* of the serials of interest or that have no SOA.
InitSerial ==
    /\ files = <<FileCatalog[1]>>
    /\ zone \in {<<>>} \cup {<<soaRRSet(serial)>> :
                     serial \in {SerialYesterday01, SerialToday01, SerialToday98, SerialToday99}}
    /\ cf = <<>>
    /\ script = "update"
    /\ dryRun = FALSE
    /\ changes = [added |-> <<>>, modified |-> <<FileCatalog[1].name>>, deleted |-> <<>>]
    /\ today = Today
    /\ budget = MaxSerialRuns
    /\ pc = "idle"
    /\ loaded = NothingLoaded
    /\ log = <<>>

Init == InitSync \/ InitEarlier \/ InitUpdate \/ InitCloudflare \/ InitCloudflareUpdate

Next ==
    \/ SyncLoad \/ SyncPatch \/ SyncEarlier \/ ProcessChanges \/ ProcessChangesLegacy
    \/ CloudflareSync \/ ProcessChangesCloudflare

Spec == Init /\ [][Next]_vars

NextSerial == ProcessChanges \/ NextDay

SpecSerial == InitSerial /\ [][NextSerial]_vars

\* ------------------------------------------------------------------------
\* Overlapping full-zone runs
\* ------------------------------------------------------------------------

\* Two runs of the same full-zone sync, started over the same repository, each
\* a read step and a write step that interleave freely; once both are done,
\* further runs execute alone. Here pc and loaded hold one entry per
\* overlapping run, every request succeeds and DRY_RUN is unset.
OverlapFiles == {1, 3, 4, 7}
OverlapRRSets == {1, 2, 3, 8}
OverlapRecords == {1, 2, 4}

\* The solo runs after the two overlapping ones.
MaxSoloRuns == 2

InitOverlap ==
    /\ files \in Trees(OverlapFiles)
    /\ \/ /\ script = "sync"
          /\ \E z \in ZoneContents(OverlapRRSets) : zone = <<soaRRSet(SerialYesterday01)>> \o z
          /\ cf = <<>>
       \/ /\ script = "cloudflare"
          /\ zone = <<>>
          /\ cf \in CloudflareContents(OverlapRecords)
    /\ dryRun = FALSE
    /\ changes = NoChanges
    /\ today = Today
    /\ budget = MaxSoloRuns
    /\ pc = <<"idle", "idle">>
    /\ loaded = <<NothingLoaded, NothingLoaded>>
    /\ log = <<>>

\* What the reads of a full-zone run return now.
readStep ==
    IF script = "sync"
    THEN [provider |-> fetchAllPdnsRRSets(zone, FALSE).rrsets,
          repositoryRecordsMap |-> loadAllRepositoryRecords(files)]
    ELSE [provider |-> fetchCloudflare(cf, FALSE).records,
          repositoryRecordsMap |-> loadAllRepositoryRecordsCloudflare(files)]

\* The rest of a full-zone run that read `read`: diff, then the PATCH or the
\* calls, applied to what the provider holds now.
writeStep(read, run) ==
    IF script = "sync"
    THEN LET plan   == SyncPlan(read.provider, read.repositoryRecordsMap)
             result == IF plan.finalPayload = <<>> THEN NoRequest
                       ELSE executePdnsPatch(zone, plan.finalPayload, FALSE, TRUE)
         IN  [run |-> run, script |-> script, empty |-> plan.finalPayload = <<>>,
              batch |-> plan.finalPayload, zone |-> result.rrsets, cf |-> cf]
    ELSE LET plan    == CloudflarePlan(read.provider, read.repositoryRecordsMap)
             creates == createAll(cf, plan.toCreate, {}, FALSE, 1)
             deletes == deleteAll(creates.records, plan.toDelete, {}, FALSE, 1)
         IN  [run |-> run, script |-> script,
              empty |-> plan.toCreate = <<>> /\ plan.toDelete = <<>>,
              batch |-> <<>>, zone |-> zone, cf |-> deletes.records]

OverlapLoad(r) ==
    /\ pc[r] = "idle"
    /\ pc' = [pc EXCEPT ![r] = "loaded"]
    /\ loaded' = [loaded EXCEPT ![r] = readStep]
    /\ UNCHANGED <<files, zone, cf, script, dryRun, changes, today, budget, log>>

OverlapWrite(r) ==
    /\ pc[r] = "loaded"
    /\ \E done \in {writeStep(loaded[r], r)} :
           /\ zone' = done.zone
           /\ cf' = done.cf
           /\ log' = Append(log, done)
    /\ pc' = [pc EXCEPT ![r] = "done"]
    /\ loaded' = [loaded EXCEPT ![r] = NothingLoaded]
    /\ UNCHANGED <<files, script, dryRun, changes, today, budget>>

\* A run executed alone: its reads and its writes with nothing in between.
OverlapSolo ==
    /\ pc = <<"done", "done">> /\ budget > 0
    /\ \E read \in {readStep} : \E done \in {writeStep(read, Len(log) + 1)} :
           /\ zone' = done.zone
           /\ cf' = done.cf
           /\ log' = Append(log, done)
    /\ budget' = budget - 1
    /\ UNCHANGED <<files, script, dryRun, changes, today, pc, loaded>>

NextOverlap == (\E r \in 1..2 : OverlapLoad(r) \/ OverlapWrite(r)) \/ OverlapSolo

SpecOverlap == InitOverlap /\ [][NextOverlap]_vars

\* ------------------------------------------------------------------------
\* Properties
\* ------------------------------------------------------------------------

\* The repository's records as the full-zone sync loads them.
RepoRecordsMap == loadAllRepositoryRecords(files)

RepoRecords == repositoryRecordsOf(RepoRecordsMap)

\* A finished full-zone pass that sent its PATCH and got a success back.
SyncApplied(i) == log[i].script = "sync" /\ log[i].sent /\ log[i].ok

DroppedByCnameRule(sig) ==
    sig.type = "CNAME" /\ hasIPRecords(RepoRecordsMap, sig.subdomain)

\* A desired record as the provider returns it once stored.
CanonicalStored(sig) ==
    storedContent(PatchRecord(normalizeContent(sig.type, sig.content), sig.priority))

StoredTypes(type) == IF type = "CNAME" THEN {"CNAME", "ALIAS"} ELSE {type}

ProtectedName(name) ==
    name \in PROTECTED_DOMAINS \/ fqdnToSubdomain(name) \in PROTECTED_SUBDOMAINS

DesiredContents(subdomain, type) ==
    {CanonicalStored(r) :
        r \in {q \in Range(RepoRecords) : q.subdomain = subdomain /\ q.type = type}}

DesiredPresent(z) ==
    \A sig \in Range(RepoRecords) :
        (~DroppedByCnameRule(sig) /\ ~ProtectedName(subdomainToFqdn(sig.subdomain))) =>
            \E rr \in Range(z) :
                /\ rr.name = subdomainToFqdn(sig.subdomain)
                /\ rr.type \in StoredTypes(sig.type)
                /\ Range(rr.records) = DesiredContents(sig.subdomain, sig.type)

NoStaleRecord(z) ==
    \A rr \in Range(managedRRSets(z)) :
        ~ProtectedName(rr.name) =>
            \A c \in Range(rr.records) :
                \E sig \in Range(RepoRecords) :
                    /\ subdomainToFqdn(sig.subdomain) = rr.name
                    /\ rr.type \in StoredTypes(sig.type)
                    /\ CanonicalStored(sig) = c

\* C1: after a full-zone pass whose PATCH succeeded, every desired RRSet the
\* CNAME-vs-A/AAAA rule keeps is in the zone with exactly the desired records,
\* and no unprotected record absent from the repository remains.
C1_ProviderMatchesRepository ==
    \A i \in 1..Len(log) :
        SyncApplied(i) => DesiredPresent(log[i].after) /\ NoStaleRecord(log[i].after)

\* C2: when a full-zone pass ended in success and the repository is the same,
\* the next full-zone pass builds an empty batch.
C2_SecondPassEmpty ==
    \A i \in 1..(Len(log) - 1) :
        (log[i].script = "sync" /\ log[i].ok /\ log[i + 1].script = "sync") =>
            log[i + 1].batch = <<>>

Keys(sigs) == {createRecordSignature(sigs[i]) : i \in 1..Len(sigs)}

DiffRun(i) == log[i].script \in {"sync", "cloudflare"}

\* C3 as stated: toCreate is D \ A and toDelete is A \ D by key, so
\* |toCreate| + |toDelete| + |D /\ A| = |D \/ A|.
C3_SymmetricDifference ==
    \A i \in 1..Len(log) :
        DiffRun(i) =>
            LET D == Range(log[i].plan.desired)
                A == Range(log[i].plan.actual)
            IN  /\ Keys(log[i].plan.toCreate) = D \ A
                /\ Keys(log[i].plan.toDelete) = A \ D
                /\ Len(log[i].plan.toCreate) + Len(log[i].plan.toDelete)
                      + Cardinality(D \cap A) = Cardinality(D \cup A)

\* C3: toCreate is D \ A by key; toDelete is A \ D by key in the Cloudflare
\* sync and A \ D without the keys of protected subdomains in the PowerDNS
\* sync, where those keys are counted: |toCreate| + |toDelete| + protected
\* + |D /\ A| = |D \/ A|.
C3_DiffUpToProtected ==
    \A i \in 1..Len(log) :
        DiffRun(i) =>
            LET D         == Range(log[i].plan.desired)
                A         == Range(log[i].plan.actual)
                kept      == IF log[i].script = "sync"
                             THEN {k \in A \ D : k[1] \in PROTECTED_SUBDOMAINS} ELSE {}
                protected == IF log[i].script = "sync"
                             THEN log[i].plan.protectedCount ELSE 0
            IN  /\ Keys(log[i].plan.toCreate) = D \ A
                /\ Keys(log[i].plan.toDelete) = (A \ D) \ kept
                /\ protected = Cardinality(kept)
                /\ Len(log[i].plan.toCreate) + Len(log[i].plan.toDelete) + protected
                      + Cardinality(D \cap A) = Cardinality(D \cup A)

\* A PowerDNS diff with a record to create, an orphan to delete and an orphan
\* of a protected subdomain.
C3_Witness ==
    \E i \in 1..Len(log) :
        /\ log[i].script = "sync"
        /\ log[i].plan.toCreate # <<>>
        /\ log[i].plan.toDelete # <<>>
        /\ log[i].plan.protectedCount > 0

\* The names a script never deletes.
ProtectedSetOf(scr) ==
    IF scr = "sync"
    THEN PROTECTED_DOMAINS \cup {subdomainToFqdn(sub) : sub \in PROTECTED_SUBDOMAINS}
    ELSE PROTECTED_DOMAINS_UPDATE

SystemNames ==
    {<<"www", ZONE>>, <<"api", ZONE>>, <<"docs", ZONE>>, <<"dev", ZONE>>, <<"blog", ZONE>>}

\* The (name, type) pairs a provider state holds at the system names.
SystemHeld(state) ==
    {<<state[k].name, state[k].type>> : k \in {n \in 1..Len(state) : state[n].name \in SystemNames}}

\* C5: no run of the full-zone syncs or of the incremental update removes what
\* the provider holds at www, api, docs, dev or blog.
C5_SystemSubdomainsNeverDeleted ==
    \A i \in 1..Len(log) :
        log[i].script \in {"sync", "update", "cloudflare"} =>
            SystemHeld(log[i].before) \subseteq SystemHeld(log[i].after)

\* The records a run wants at a subdomain: what the full-zone loader holds
\* for it, or what the incremental update loads from the first listed file of
\* that subdomain that has records.
DesiredAt(i, subdomain) ==
    LET listed == dedupe(changes.added \o changes.modified)
        Loads(filename) == /\ getSubdomainFromPath(filename) = subdomain
                           /\ (IF log[i].script = "legacy"
                               THEN loadRecordFileLegacy(files, filename)
                               ELSE loadRecordFile(files, filename)) # <<>>
        loading == SelectSeq(listed, Loads)
    IN  IF log[i].script = "sync"
        THEN IF MapHas(RepoRecordsMap, subdomain)
             THEN MapGet(RepoRecordsMap, subdomain) ELSE <<>>
        ELSE IF loading = <<>> THEN <<>>
        ELSE IF log[i].script = "legacy" THEN loadRecordFileLegacy(files, loading[1])
        ELSE loadRecordFile(files, loading[1])

Subdomains == {getSubdomainFromPath(FileCatalog[k].name) : k \in 1..Len(FileCatalog)}

CnameAndIP(i, subdomain) ==
    /\ \E r \in Range(DesiredAt(i, subdomain)) : r.type = "CNAME"
    /\ \E r \in Range(DesiredAt(i, subdomain)) : r.type \in {"A", "AAAA"}

OperationsAt(i, subdomain) ==
    {op \in Range(log[i].batch) : op.name = subdomainToFqdn(subdomain)}

\* C6 as stated: a name with a desired CNAME and a desired A or AAAA has no
\* operation of type CNAME or ALIAS in the final batch.
C6_NoCnameOperation ==
    \A i \in 1..Len(log) : \A subdomain \in Subdomains :
        (log[i].script \in {"sync", "update"} /\ CnameAndIP(i, subdomain)) =>
            \A op \in OperationsAt(i, subdomain) : op.type \notin {"CNAME", "ALIAS"}

\* C6: a name with a desired CNAME and a desired A or AAAA has no REPLACE of
\* type CNAME or ALIAS in the final batch (a DELETE of a CNAME or ALIAS RRSet
\* the provider holds may be there).
C6_NoCnameReplace ==
    \A i \in 1..Len(log) : \A subdomain \in Subdomains :
        (log[i].script \in {"sync", "update"} /\ CnameAndIP(i, subdomain)) =>
            \A op \in OperationsAt(i, subdomain) :
                op.type \in {"CNAME", "ALIAS"} => op.changetype = "DELETE"

\* A full-zone pass for a name with a desired CNAME and A whose batch replaces
\* the A RRSet and deletes the ALIAS RRSet the provider held.
C6_Witness ==
    \E i \in 1..Len(log) : \E subdomain \in Subdomains :
        /\ log[i].script = "sync"
        /\ CnameAndIP(i, subdomain)
        /\ \E op \in OperationsAt(i, subdomain) : op.type = "A" /\ op.changetype = "REPLACE"
        /\ \E op \in OperationsAt(i, subdomain) : op.type = "ALIAS" /\ op.changetype = "DELETE"

\* C7: a run that has a desired CNAME at the apex puts an ALIAS operation and
\* no CNAME operation for the apex in its batch.
C7_ApexCnameIsAlias ==
    \A i \in 1..Len(log) :
        (/\ log[i].script \in {"sync", "update", "legacy"}
         /\ \E r \in Range(DesiredAt(i, APEX)) : r.type = "CNAME") =>
            /\ \E op \in OperationsAt(i, APEX) : op.type = "ALIAS"
            /\ \A op \in OperationsAt(i, APEX) : op.type # "CNAME"

\* An incremental run that sent a batch and whose PATCH succeeded.
UpdateApplied(i) == log[i].script = "update" /\ log[i].sent /\ log[i].ok

\* C8: of two consecutive incremental runs with non-empty batches on one day,
\* the second writes a serial greater than the first.
C8_SameDaySerialIncreases ==
    \A i \in 1..(Len(log) - 1) :
        (UpdateApplied(i) /\ UpdateApplied(i + 1) /\ log[i].day = log[i + 1].day) =>
            toNumber(log[i + 1].plan.newSerial) > toNumber(log[i].plan.newSerial)

Prefix(serial) == SubSeq(serial, 1, Len(serial) - 2)

Counter(serial) == toNumber(SubSeq(serial, Len(serial) - 1, Len(serial)))

DayPrefix(day) == toString(day.year) \o padStart2(day.month) \o padStart2(day.day)

\* C9: the new serial is the current one with its counter incremented when
\* the current one has today's prefix, and today's prefix followed by 01
\* otherwise.
C9_SerialTransition ==
    \A i \in 1..Len(log) :
        (log[i].script = "update" /\ log[i].sent) =>
            LET current == log[i].plan.currentSerial
                new     == log[i].plan.newSerial
            IN  IF Len(current) = 10 /\ Prefix(current) = DayPrefix(log[i].day)
                THEN /\ Len(new) = 10
                     /\ Prefix(new) = Prefix(current)
                     /\ Counter(new) = Counter(current) + 1
                ELSE new = DayPrefix(log[i].day) \o <<"0", "1">>

SoaOperations(batch) == {j \in 1..Len(batch) : batch[j].type = "SOA"}

\* C10: a PowerDNS pass whose filtered batch is not empty ends it with one
\* REPLACE of the SOA RRSet, and a pass whose filtered batch is empty sends
\* nothing.
C10_SoaBump ==
    \A i \in 1..Len(log) :
        log[i].script \in {"sync", "update"} =>
            IF log[i].batch # <<>>
            THEN /\ Cardinality(SoaOperations(log[i].batch)) = 1
                 /\ log[i].batch[Len(log[i].batch)].type = "SOA"
                 /\ log[i].batch[Len(log[i].batch)].changetype = "REPLACE"
            ELSE ~log[i].sent /\ log[i].after = log[i].before

\* C11: in every final batch of the full-zone sync and of the incremental
\* update, no REPLACE comes before a DELETE.
C11_DeleteBeforeReplace ==
    \A i \in 1..Len(log) :
        log[i].script \in {"sync", "update"} =>
            \A j, k \in 1..Len(log[i].batch) :
                (log[i].batch[j].changetype = "REPLACE" /\ log[i].batch[k].changetype = "DELETE")
                    => k < j

\* A run whose comparison found something to do.
NonEmptyDiff(i) ==
    \/ log[i].plan.toCreate # <<>>
    \/ log[i].plan.toDelete # <<>>
    \/ log[i].batch # <<>>

\* C12: a run of the PowerDNS or Cloudflare full-zone sync with DRY_RUN set
\* and a non-empty diff makes no write request, leaves the provider as it
\* was and ends in success.
C12_DryRunWritesNothing ==
    \A i \in 1..Len(log) :
        (log[i].script \in {"sync", "cloudflare"} /\ log[i].dry /\ NonEmptyDiff(i)) =>
            /\ ~log[i].sent
            /\ log[i].after = log[i].before
            /\ log[i].ok

\* A dry run of the PowerDNS sync whose batch holds a DELETE and a REPLACE.
C12_Witness ==
    \E i \in 1..Len(log) :
        /\ log[i].script = "sync" /\ log[i].dry
        /\ log[i].plan.toCreate # <<>> /\ log[i].plan.toDelete # <<>>
        /\ \E op \in Range(log[i].batch) : op.changetype = "DELETE"
        /\ \E op \in Range(log[i].batch) : op.changetype = "REPLACE"

\* A finished run of the Cloudflare sync that read both sides and writes.
CloudflareWrites(i) ==
    log[i].script = "cloudflare" /\ ~log[i].dry /\ ~log[i].readFailed

\* The records of toCreate that validateRecordContent refuses.
Refused(i) ==
    {k \in 1..Len(log[i].plan.toCreate) : ~validateRecordContent(log[i].plan.toCreate[k])}

Holds(state, sig) ==
    \E record \in Range(state) :
        /\ record.name = sig.subdomain \o <<ZONE>>
        /\ record.type = sig.type
        /\ record.content = sig.content

C14_ExitStatus ==
    \A i \in 1..Len(log) :
        ~log[i].dry =>
            /\ log[i].failedCalls > 0 => ~log[i].ok
            /\ (~log[i].sent /\ ~log[i].readFailed) => log[i].ok
\* The provider calls of a finished run in the order they were made. The
\* PowerDNS scripts and the Cloudflare sync make their reads first and their
\* writes (one PATCH, or one call per record) after the comparison.
CallsOf(i) ==
    IF log[i].script = "cfupdate"
    THEN [k \in 1..Len(log[i].io) |-> log[i].io[k].op]
    ELSE <<"list">> \o (IF log[i].sent THEN <<"write">> ELSE <<>>)

\* C15: single write phase. In every run no provider write is issued before
\* a read of provider state made by the same run: every call made before a
\* list call is itself a list call.
C15_SingleWritePhase ==
    \A i \in 1..Len(log) :
        \A j, k \in 1..Len(CallsOf(i)) :
            (j < k /\ CallsOf(i)[k] = "list") => CallsOf(i)[j] = "list"

FullZoneRun(i) == log[i].script \in {"sync", "cloudflare"}

\* C16: full-zone mode. A run whose provider read failed ends in failure
\* and issues no write: nothing is sent and the provider holds what it held.
C16_ReadFailureIsFatal ==
    \A i \in 1..Len(log) :
        (FullZoneRun(i) /\ log[i].readFailed) =>
            /\ ~log[i].ok
            /\ ~log[i].sent
            /\ log[i].after = log[i].before

\* A PowerDNS sync whose read failed while repository and zone differed, so
\* that the run would have sent a PATCH had it read the zone.
C16_Witness ==
    /\ \E i \in 1..Len(log) :
          /\ log[i].script = "sync" /\ log[i].readFailed /\ ~log[i].dry
          /\ SyncPlan(managedRRSets(log[i].before),
                      loadAllRepositoryRecords(files)).finalPayload # <<>>

\* The DELETE operations a PowerDNS update holds for a subdomain.
DeletesAt(i, subdomain) ==
    {j \in 1..Len(log[i].batch) :
        /\ log[i].batch[j].changetype = "DELETE"
        /\ log[i].batch[j].name = (IF log[i].script = "legacy"
                                   THEN subdomainToFqdnLegacy(subdomain)
                                   ELSE subdomainToFqdn(subdomain))}

\* The calls of a Cloudflare update, by kind, for a subdomain.
CallsAt(i, op, subdomain) ==
    {k \in 1..Len(log[i].io) : log[i].io[k].op = op /\ log[i].io[k].subdomain = subdomain}

\* C17, as stated: incremental mode. When a provider read for a subdomain
\* fails, the run issues no DELETE for any record of that subdomain.
C17_NoDeleteAfterFailedRead ==
    \A i \in 1..Len(log) :
        /\ log[i].script \in {"update", "legacy"} =>
              \A subdomain \in log[i].plan.failedReads : DeletesAt(i, subdomain) = {}
        /\ log[i].script = "cfupdate" =>
              \A k \in 1..Len(log[i].io) :
                  (log[i].io[k].op = "list" /\ log[i].io[k].failed) =>
                      CallsAt(i, "delete", log[i].io[k].subdomain) = {}

\* The RRSets the reads of a PowerDNS update returned: those at the names of
\* the touched subdomains whose read did not fail.
ReturnedRRSets(i) ==
    UNION {Range(IF log[i].script = "legacy"
                 THEN getSubdomainRRSetsLegacy(log[i].before, subdomain, FALSE)
                 ELSE getSubdomainRRSets(log[i].before, subdomain, FALSE)) :
              subdomain \in touchedSubdomains \ log[i].plan.failedReads}

\* C17, amended: no DELETE derives from a failed read. Every DELETE of a
\* PowerDNS update is for an RRSet (name and type) that a read of the same
\* run returned; every delete call of a Cloudflare update names a record
\* that an earlier list call of the same run returned for that subdomain.
C17_NoDeleteFromFailedRead ==
    \A i \in 1..Len(log) :
        /\ log[i].script \in {"update", "legacy"} =>
              \A j \in 1..Len(log[i].batch) :
                  log[i].batch[j].changetype = "DELETE" =>
                      \E rr \in ReturnedRRSets(i) :
                          /\ rr.type = log[i].batch[j].type
                          /\ toLowerCaseName(rr.name) = log[i].batch[j].name
        /\ log[i].script = "cfupdate" =>
              \A k \in 1..Len(log[i].io) :
                  log[i].io[k].op = "delete" =>
                      \E j \in 1..(k - 1) :
                          /\ log[i].io[j].op = "list" /\ ~log[i].io[j].failed
                          /\ log[i].io[j].subdomain = log[i].io[k].subdomain
                          /\ log[i].io[k].ids \subseteq log[i].io[j].ids

\* A PowerDNS update whose read failed for the subdomain of a deleted file
\* while the zone held RRSets at that name.
C17_Witness ==
    /\ \E i \in 1..Len(log) :
          /\ log[i].script = "update"
          /\ \E subdomain \in log[i].plan.failedReads :
                /\ \E f \in Range(changes.deleted) : getSubdomainFromPath(f) = subdomain
                /\ getSubdomainRRSets(log[i].before, subdomain, FALSE) # <<>>

\* The provider matches the repository: the PowerDNS zone holds the desired
\* RRSets and nothing stale; the Cloudflare diff of zone and repository is empty.
Converged ==
    IF script = "sync"
    THEN DesiredPresent(zone) /\ NoStaleRecord(zone)
    ELSE LET plan == CloudflarePlan(fetchAllCloudflareRecords(cf),
                                    loadAllRepositoryRecordsCloudflare(files))
         IN  plan.toCreate = <<>> /\ plan.toDelete = <<>>

\* C18: eventual convergence under overlapping runs. Whatever the
\* interleaving of the read and write steps of two concurrent full-zone runs
\* over the same repository, the run executed alone after them leaves the
\* provider matching the repository, and the run after that has an empty batch.
C18_ConvergesAfterOverlap ==
    /\ (Len(log) = 3 /\ log[3].run = 3) => Converged
    /\ Len(log) = 4 => log[4].empty

\* A PowerDNS incremental update whose reads all succeeded and whose PATCH was
\* sent and accepted.
UpdateSucceeded(i) ==
    /\ log[i].script \in {"update", "legacy"}
    /\ log[i].sent /\ log[i].ok
    /\ log[i].plan.failedReads = {}

FqdnOf(i, subdomain) ==
    IF log[i].script = "legacy" THEN subdomainToFqdnLegacy(subdomain)
    ELSE subdomainToFqdn(subdomain)

\* The signatures the update loads from a changed file.
SignaturesOf(i, filename) ==
    IF log[i].script = "legacy" THEN loadRecordFileLegacy(files, filename)
    ELSE loadRecordFile(files, filename)

\* The types of the managed RRSets a zone holds at a name.
TypesAt(z, name) == {rr.type : rr \in {q \in Range(managedRRSets(z)) : q.name = name}}

\* C19: after a successful incremental PowerDNS update, at the name of every
\* added or modified file with records the zone holds an RRSet for each type
\* of the file (ALIAS may stand for CNAME; a CNAME next to A or AAAA is left
\* out) and no RRSet of a type the file does not hold, and at the name of
\* every deleted file of an unprotected subdomain it holds no managed RRSet.
C19_UpdateLeavesFileRRSets ==
    \A i \in 1..Len(log) :
        UpdateSucceeded(i) =>
            /\ \A f \in Range(changes.added) \cup Range(changes.modified) :
                  LET sigs == SignaturesOf(i, f)
                      name == FqdnOf(i, getSubdomainFromPath(f))
                      held == TypesAt(log[i].after, name)
                      HasIP == \E k \in 1..Len(sigs) : sigs[k].type \in {"A", "AAAA"}
                  IN  (/\ sigs # <<>>
                       /\ name \notin PROTECTED_DOMAINS_UPDATE
                       /\ \A d \in Range(changes.deleted) :
                              getSubdomainFromPath(d) # getSubdomainFromPath(f)) =>
                          /\ \A t \in held :
                                \E k \in 1..Len(sigs) : t \in StoredTypes(sigs[k].type)
                          /\ \A k \in 1..Len(sigs) :
                                ~(sigs[k].type = "CNAME" /\ HasIP) =>
                                    StoredTypes(sigs[k].type) \cap held # {}
            /\ \A d \in Range(changes.deleted) :
                  LET name == FqdnOf(i, getSubdomainFromPath(d))
                  IN  (/\ name \notin PROTECTED_DOMAINS_UPDATE
                       /\ \A f \in Range(changes.added) \cup Range(changes.modified) :
                              FqdnOf(i, getSubdomainFromPath(f)) # name) =>
                          TypesAt(log[i].after, name) = {}

\* A full-zone PowerDNS pass that got as far as building its batch.
Rollup(i) == log[i].script \in {"sync", "earlier"} /\ ~log[i].readFailed

\* The (subdomain, type) pairs the diff of a pass touches.
TouchedPairs(i) ==
    {<<sig.subdomain, sig.type>> :
        sig \in Range(log[i].plan.toCreate) \cup Range(log[i].plan.toDelete)}

\* The desired record list of a pair: the records of the repository, as loaded.
DesiredOf(i, pair) ==
    LET InPair(sig) == sig.subdomain = pair[1] /\ sig.type = pair[2]
    IN  SelectSeq(repositoryRecordsOf(IF log[i].script = "earlier"
                                      THEN loadAllRepositoryRecordsEarlier(files)
                                      ELSE loadAllRepositoryRecords(files)), InPair)

OperationsFor(i, pair) ==
    {j \in 1..Len(log[i].batch) :
        /\ log[i].batch[j].name = (IF log[i].script = "earlier"
                                   THEN subdomainToFqdnLegacy(pair[1])
                                   ELSE subdomainToFqdn(pair[1]))
        /\ log[i].batch[j].type = pair[2]}

\* C20: RRSet rollup. For each touched (subdomain, type) pair the batch holds
\* exactly one operation with TTL 300: a DELETE with no records when the
\* desired list of the pair is empty, otherwise a REPLACE whose records are
\* the whole desired list of the pair, each content canonicalized.
C20_RRSetRollup ==
    \A i \in 1..Len(log) :
        Rollup(i) =>
            \A pair \in TouchedPairs(i) :
                LET desired == DesiredOf(i, pair)
                    ops     == OperationsFor(i, pair)
                IN  /\ Cardinality(ops) = 1
                    /\ \A j \in ops :
                          /\ log[i].batch[j].ttl = DEFAULT_TTL
                          /\ IF desired = <<>>
                             THEN /\ log[i].batch[j].changetype = "DELETE"
                                  /\ log[i].batch[j].records = <<>>
                             ELSE /\ log[i].batch[j].changetype = "REPLACE"
                                  /\ log[i].batch[j].records =
                                        [k \in 1..Len(desired) |->
                                            PatchRecord(normalizeContent(desired[k].type,
                                                                         desired[k].content),
                                                        desired[k].priority)]

\* The signature keys of a diff side that belong to a (subdomain, type) pair.
KeysOfPair(keys, pair) == {k \in Range(keys) : k[1] = pair[1] /\ k[2] = pair[2]}

\* C21: dirty-RRSet set. In a full-zone pass the (subdomain, type) pairs the
\* batch is built from are exactly the pairs touched by a signature of
\* toCreate or toDelete, and a pair whose desired and actual signatures are
\* equal has no operation in the batch.
C21_DirtyRRSetSet ==
    \A i \in 1..Len(log) :
        (log[i].script = "sync" /\ ~log[i].readFailed) =>
            /\ Range(log[i].plan.changed) = TouchedPairs(i)
            /\ \A pair \in Range(log[i].plan.changed) :
                  KeysOfPair(log[i].plan.desired, pair) = KeysOfPair(log[i].plan.actual, pair)
                      => \A op \in Range(log[i].plan.patchPayload) :
                            ~(/\ op.name = subdomainToFqdn(pair[1])
                              /\ op.type \in StoredTypes(pair[2]))

\* The signature key of a desired record with its content in canonical form.
CanonicalKey(sig) ==
    createRecordSignature([sig EXCEPT !.content = normalizeContent(sig.type, sig.content)])

\* C22: signatures compare canonical content. In a full-zone pass a desired
\* record whose canonical form the provider holds under the same subdomain,
\* type and priority is not in toCreate, and the provider's record is not in
\* toDelete.
C22_CanonicalSignatures ==
    \A i \in 1..Len(log) :
        (log[i].script = "sync" /\ ~log[i].readFailed) =>
            \A sig \in Range(RepoRecords) :
                CanonicalKey(sig) \in Range(log[i].plan.actual) =>
                    /\ createRecordSignature(sig) \notin Keys(log[i].plan.toCreate)
                    /\ CanonicalKey(sig) \notin Keys(log[i].plan.toDelete)

\* The REPLACE operations of a payload, in order, the SOA bump left out.
ReplacesOf(payload) ==
    LET IsReplace(item) == item.changetype = "REPLACE" /\ item.type # "SOA"
    IN  SelectSeq(payload, IsReplace)

\* C23: protection never blocks updates. In the full-zone sync and in the
\* incremental update the REPLACE operations of the final batch are the
\* REPLACE operations built before the protected-name filter, those of
\* protected names included; what the filter removes are DELETEs only.
C23_ReplaceNeverFiltered ==
    \A i \in 1..Len(log) :
        (log[i].script \in {"sync", "update"} /\ ~log[i].readFailed) =>
            /\ ReplacesOf(log[i].batch) = ReplacesOf(log[i].plan.patchPayload)
            /\ \A op \in Range(log[i].plan.patchPayload) :
                  op \notin Range(log[i].batch) => op.changetype = "DELETE"

\* A full-zone pass that built a REPLACE for a protected name and a DELETE that
\* the protected-name filter removed.
C23_Witness ==
    \E i \in 1..Len(log) :
        /\ log[i].script = "sync"
        /\ \E op \in Range(log[i].plan.patchPayload) :
              /\ op.changetype = "REPLACE"
              /\ op.name \in PROTECTED_DOMAINS
              /\ op \in Range(log[i].batch)
        /\ \E op \in Range(log[i].plan.patchPayload) : op \notin Range(log[i].batch)

\* The three cases in which a desired CNAME is to be sent as ALIAS: the apex,
\* another desired record type at the name, a desired descendant of the name.
MustPromote(i, subdomain) ==
    \/ subdomain = APEX
    \/ \E r \in Range(DesiredAt(i, subdomain)) : r.type # "CNAME"
    \/ \E other \in Range(MapKeys(RepoRecordsMap)) : isChildOf(other, subdomain)

\* The promotion rule in one run: no literal CNAME REPLACE in one of the three
\* cases, and an ALIAS REPLACE there unless the CNAME is dropped for an A or
\* AAAA record of the same file.
CnamePromotion(i) ==
    \A subdomain \in Subdomains :
        (/\ \E r \in Range(DesiredAt(i, subdomain)) : r.type = "CNAME"
         /\ MustPromote(i, subdomain)) =>
            /\ \A op \in OperationsAt(i, subdomain) :
                  ~(op.changetype = "REPLACE" /\ op.type = "CNAME")
            /\ ~CnameAndIP(i, subdomain) =>
                  \E op \in OperationsAt(i, subdomain) :
                      op.changetype = "REPLACE" /\ op.type = "ALIAS"

\* C24: CNAME-to-ALIAS promotion. In the full-zone sync and in the incremental
\* update a REPLACE of literal type CNAME is in the batch only for a name that
\* is not the apex, has no other desired record type and no desired
\* descendant; in each of the three cases the REPLACE is of type ALIAS.
C24_CnamePromotion ==
    \A i \in 1..Len(log) :
        (log[i].script \in {"sync", "update"} /\ ~log[i].readFailed) => CnamePromotion(i)

\* The types other than CNAME of the RRSets a provider state holds at a name.
ConflictingTypes(state, name) ==
    {rr.type : rr \in {r \in Range(managedRRSets(state)) :
                          toLowerCaseName(r.name) = name /\ r.type # "CNAME"}}

\* Every literal CNAME REPLACE of the batch of a run, at a name for which
\* Covered holds, has before it a DELETE for each conflicting type held.
CleanupBefore(i, Covered(_)) ==
    \A j \in 1..Len(log[i].batch) :
        (/\ log[i].batch[j].changetype = "REPLACE"
         /\ log[i].batch[j].type = "CNAME"
         /\ Covered(log[i].batch[j].name)) =>
            \A t \in ConflictingTypes(log[i].before, log[i].batch[j].name) :
                \E k \in 1..(j - 1) :
                    /\ log[i].batch[k].changetype = "DELETE"
                    /\ toLowerCaseName(log[i].batch[k].name) = log[i].batch[j].name
                    /\ log[i].batch[k].type = t

AnyName(name) == TRUE

\* C25: conflict cleanup. Whenever the final batch of the full-zone sync or of
\* the incremental update holds a REPLACE of literal type CNAME for a name at
\* which the provider holds RRSets of other types, the batch holds a DELETE
\* for each of those types before that REPLACE.
C25_ConflictCleanup ==
    \A i \in 1..Len(log) :
        (log[i].script \in {"sync", "update"} /\ ~log[i].readFailed) =>
            CleanupBefore(i, AnyName)

\* The desired CNAME records of a name, in input order.
DesiredCnames(i, subdomain) ==
    LET IsCname(r) == r.type = "CNAME"
    IN  SelectSeq(DesiredAt(i, subdomain), IsCname)

\* The canonical content a script sends for a desired record.
SentContent(i, r) ==
    IF log[i].script = "update" THEN normalizeContentUpdate(r.type, r.content)
    ELSE normalizeContent(r.type, r.content)

\* C26: at most one CNAME. Every REPLACE of type CNAME or ALIAS in the batch
\* of the full-zone sync or of the incremental update carries exactly one
\* record, the first desired CNAME record of the name in input order.
C26_SingleCname ==
    \A i \in 1..Len(log) :
        (log[i].script \in {"sync", "update"} /\ ~log[i].readFailed) =>
            \A op \in Range(log[i].batch) :
                (op.changetype = "REPLACE" /\ op.type \in {"CNAME", "ALIAS"}) =>
                    LET cnames == DesiredCnames(i, fqdnToSubdomain(op.name))
                    IN  /\ Len(op.records) = 1
                        /\ cnames # <<>>
                        /\ op.records[1].content = SentContent(i, cnames[1])

\* An incremental run for a file with two CNAME records whose batch replaces
\* the CNAME RRSet of the name.
C26_Witness ==
    \E i \in 1..Len(log) : \E subdomain \in Subdomains :
        /\ log[i].script = "update"
        /\ Len(DesiredCnames(i, subdomain)) > 1
        /\ \E op \in OperationsAt(i, subdomain) :
              op.changetype = "REPLACE" /\ op.type \in {"CNAME", "ALIAS"}

\* A file name whose derived subdomain has no upper-case character.
LowerCaseFile(filename) ==
    getSubdomainFromPath(filename) = toLowerCaseName(getSubdomainFromPath(filename))

\* A working tree and a change-set without the files of upper-case subdomains.
WithoutUpperCaseFiles(tree) ==
    LET Lower(f) == LowerCaseFile(f.name)
    IN  SelectSeq(tree, Lower)

WithoutUpperCaseChanges(chg) ==
    [added    |-> SelectSeq(chg.added, LowerCaseFile),
     modified |-> SelectSeq(chg.modified, LowerCaseFile),
     deleted  |-> SelectSeq(chg.deleted, LowerCaseFile)]

\* C27: upper-case rejection. The operations a run builds are those it builds
\* when the files whose derived subdomain has an upper-case character are
\* absent: from the repository in the full-zone sync, from the added, modified
\* and deleted lists in the incremental update.
C27_UppercaseSkipped ==
    \A i \in 1..Len(log) :
        /\ (log[i].script = "sync" /\ ~log[i].readFailed) =>
              log[i].plan.patchPayload =
                  SyncPlan(managedRRSets(log[i].before),
                           loadAllRepositoryRecords(WithoutUpperCaseFiles(files))).patchPayload
        /\ log[i].script = "update" =>
              log[i].plan.patchPayload =
                  UpdatePlan(WithoutUpperCaseChanges(changes), files, log[i].before,
                             log[i].plan.failedReads, FALSE, log[i].day).patchPayload

\* C28: protected-subdomain partition of the diff. In a full-zone pass every
\* actual signature absent from the desired set is in toDelete or is counted
\* as protected, never both; toDelete holds no signature of a protected
\* subdomain, and protectedCount + |toDelete| = |A \ D|.
C28_ProtectedPartition ==
    \A i \in 1..Len(log) :
        (log[i].script = "sync" /\ ~log[i].readFailed) =>
            LET orphans   == Range(log[i].plan.actual) \ Range(log[i].plan.desired)
                listed    == Keys(log[i].plan.toDelete)
                protected == {k \in orphans : k[1] \in PROTECTED_SUBDOMAINS}
            IN  /\ listed \subseteq orphans
                /\ listed \cap protected = {}
                /\ listed \cup protected = orphans
                /\ \A k \in 1..Len(log[i].plan.toDelete) :
                      log[i].plan.toDelete[k].subdomain \notin PROTECTED_SUBDOMAINS
                /\ log[i].plan.protectedCount = Cardinality(protected)
                /\ log[i].plan.protectedCount + Len(log[i].plan.toDelete)
                      = Cardinality(orphans)

\* A full-zone pass whose provider holds an orphan of a protected subdomain
\* and an orphan of another subdomain.
C28_Witness ==
    \E i \in 1..Len(log) :
        /\ log[i].script = "sync"
        /\ log[i].plan.protectedCount > 0
        /\ \E k \in Range(log[i].plan.actual) \ Range(log[i].plan.desired) :
              k[1] \in PROTECTED_SUBDOMAINS
        /\ \E k \in 1..Len(log[i].plan.toDelete) :
              log[i].plan.toDelete[k].subdomain \notin PROTECTED_SUBDOMAINS

\* The orders in which the entries of a list can be enumerated.
Reordered(list) ==
    {[k \in 1..Len(list) |-> list[p[k]]] :
        p \in {q \in [1..Len(list) -> 1..Len(list)] :
                  \A a, b \in 1..Len(list) : a # b => q[a] # q[b]}}

\* A full-zone pass computes, for the files enumerated as `tree` and the
\* provider RRSets listed as `rrsets`, the diff and the batch of run i.
SameOutcome(i, tree, rrsets) ==
    LET other == SyncPlan(rrsets, loadAllRepositoryRecords(tree))
    IN  /\ Range(other.toCreate) = Range(log[i].plan.toCreate)
        /\ Range(other.toDelete) = Range(log[i].plan.toDelete)
        /\ Range(other.finalPayload) = Range(log[i].batch)

\* C29: order independence. For the repository files and the provider RRSets
\* of a full-zone pass, toCreate and toDelete as sets and the set of
\* operations of the final batch are the same in whatever order the files are
\* enumerated and the RRSets are listed.
C29_OrderIndependence ==
    \A i \in 1..Len(log) :
        (log[i].script = "sync" /\ ~log[i].readFailed) =>
            \A tree \in Reordered(files) :
                \A rrsets \in Reordered(managedRRSets(log[i].before)) :
                    SameOutcome(i, tree, rrsets)

\* An MX priority within [0, 65535].
PriorityInRange(priority) ==
    /\ priority # undefined
    /\ Head(priority) # "-"
    /\ toNumber(priority) <= MAX_PRIORITY

\* The zone holds the record of a signature, priority included.
Stored(state, sig) ==
    \E record \in Range(state) :
        /\ record.name = sig.subdomain \o <<ZONE>>
        /\ record.type = sig.type
        /\ record.content = sig.content
        /\ record.priority = sig.priority

\* C30: MX priority range. In a run of the Cloudflare sync an MX record to
\* create whose call is not rejected by the provider is created exactly when
\* its priority is in [0, 65535], 0 included; a run whose records to create
\* all have a priority outside the range, with nothing to delete, makes no
\* API write.
C30_MxPriorityRange ==
    \A i \in 1..Len(log) :
        (log[i].script = "cloudflare" /\ ~log[i].dry /\ ~log[i].readFailed) =>
            /\ \A k \in 1..Len(log[i].plan.toCreate) :
                  (log[i].plan.toCreate[k].type = "MX" /\ k \notin log[i].failedCreates) =>
                      (PriorityInRange(log[i].plan.toCreate[k].priority)
                          <=> Stored(log[i].after, log[i].plan.toCreate[k]))
            /\ (/\ log[i].plan.toDelete = <<>>
                /\ \A k \in 1..Len(log[i].plan.toCreate) :
                      /\ log[i].plan.toCreate[k].type = "MX"
                      /\ ~PriorityInRange(log[i].plan.toCreate[k].priority))
                  => ~log[i].sent

\* The types of RRSets the scripts leave to the provider's operator.
Unmanaged == {"SOA", "NS"}

\* The DELETE operations of a payload that target an SOA or NS RRSet.
UnmanagedDeletes(payload) ==
    {j \in 1..Len(payload) :
        payload[j].changetype = "DELETE" /\ payload[j].type \in Unmanaged}

\* C31: SOA and NS are outside management. No signature of the actual set a
\* full-zone pass computed has type SOA or NS, and no DELETE of a batch, of the
\* full-zone sync or of the incremental update, before or after the
\* protected-name filter, targets an SOA or NS RRSet.
C31_SoaNsUnmanaged ==
    \A i \in 1..Len(log) :
        /\ log[i].script \in {"sync", "earlier"} =>
              /\ \A k \in 1..Len(log[i].plan.actual) :
                    log[i].plan.actual[k][2] \notin Unmanaged
              /\ \A k \in 1..Len(log[i].plan.toDelete) :
                    log[i].plan.toDelete[k].type \notin Unmanaged
              /\ UnmanagedDeletes(log[i].plan.patchPayload) = {}
        /\ log[i].script = "update" => UnmanagedDeletes(log[i].plan.patchPayload) = {}
        /\ log[i].script \in {"sync", "earlier", "update", "legacy"} =>
              UnmanagedDeletes(log[i].batch) = {}

\* A full-zone pass over a zone holding an NS RRSet at a name the repository
\* has no file for, beside an RRSet it deletes there: the PATCH was accepted
\* and the NS RRSet is still in the zone.
C31_Witness ==
    \E i \in 1..Len(log) :
        /\ SyncApplied(i)
        /\ \E rr \in Range(log[i].before) :
              /\ rr.type = "NS"
              /\ rr.name # <<ZONE>>
              /\ \A k \in 1..Len(log[i].plan.desired) :
                    log[i].plan.desired[k][1] # fqdnToSubdomain(rr.name)
              /\ \E j \in 1..Len(log[i].batch) :
                    /\ log[i].batch[j].changetype = "DELETE"
                    /\ log[i].batch[j].name = rr.name
              /\ rr \in Range(log[i].after)

\* The serial of the SOA RRSet a zone holds ("0" without one).
StoredSerial(state) == getCurrentSoaSerial(state, FALSE)

\* C32: over any sequence of incremental runs, several a day, over the days,
\* with the SOA read succeeding or failing, the serial the zone holds after a
\* run is not lower than the one it held before the run.
C32_SerialNeverDecreases ==
    \A i \in 1..Len(log) :
        log[i].script = "update" =>
            toNumber(StoredSerial(log[i].after)) >= toNumber(StoredSerial(log[i].before))

\* No two operations of a batch target the same RRSet (name and type).
OneOperationPerRRSet(batch) ==
    \A j, k \in 1..Len(batch) :
        j # k => <<batch[j].name, batch[j].type>> # <<batch[k].name, batch[k].type>>

\* C33: every final batch of the full-zone sync and of the incremental update
\* holds at most one operation per RRSet: none is the target of a DELETE and
\* a REPLACE, or of two REPLACEs.
C33_OneOperationPerRRSet ==
    \A i \in 1..Len(log) :
        log[i].script \in {"sync", "update"} => OneOperationPerRRSet(log[i].batch)

\* No name of the zone holds a literal CNAME RRSet beside an RRSet of
\* another type.
NoCnameConflict(state) ==
    \A rr, other \in Range(state) :
        (rr.type = "CNAME" /\ other.name = rr.name) => other.type = "CNAME"

\* C34: when the zone has no literal CNAME RRSet beside an RRSet of another
\* type at any name, it has none after the final batch of a full-zone sync or
\* of an incremental update was applied to it.
C34_CnameExclusivity ==
    \A i \in 1..Len(log) :
        (/\ log[i].script \in {"sync", "update"}
         /\ log[i].sent /\ log[i].ok
         /\ NoCnameConflict(log[i].before)) => NoCnameConflict(log[i].after)

\* The batch of run i holds a REPLACE for the RRSet of signature sig.
ReplacedIn(i, sig) ==
    \E j \in 1..Len(log[i].batch) :
        /\ log[i].batch[j].changetype = "REPLACE"
        /\ log[i].batch[j].name = FqdnOf(i, sig.subdomain)
        /\ log[i].batch[j].type \in StoredTypes(sig.type)

\* The records of a changed file the update is to write: all but a CNAME
\* beside A or AAAA records (the earlier update has no such rule).
Written(i, sigs, sig) ==
    log[i].script = "legacy" \/ ~(sig.type = "CNAME" /\ hasIPInFile(sigs))

\* C35: incremental update. For every added or modified file that loads with
\* records, the batch holds a REPLACE for each RRSet of the file, a CNAME
\* dropped by the A/AAAA rule aside, also when a deleted file of the same
\* change-set maps to the same subdomain.
C35_ChangedFileReplaced ==
    \A i \in 1..Len(log) :
        log[i].script \in {"update", "legacy"} =>
            \A f \in Range(changes.added) \cup Range(changes.modified) :
                \A sig \in Range(SignaturesOf(i, f)) :
                    Written(i, SignaturesOf(i, f), sig) => ReplacedIn(i, sig)

\* The record files a full-zone loader skips: the PowerDNS loader for a name
\* with upper-case letters or a file that does not parse into a record
\* array, the Cloudflare loader for the latter.
SkippedFiles(i) ==
    {f \in Range(files) :
        \/ f.parse # "ok"
        \/ /\ log[i].script = "sync"
           /\ getSubdomainFromPath(f.name) # toLowerCaseName(getSubdomainFromPath(f.name))}

\* The subdomain of a skipped file, as the provider spells it.
SubdomainOfSkipped(i, f) ==
    toLowerCaseName(IF log[i].script = "sync" THEN getSubdomainFromPath(f.name)
                    ELSE getSubdomainFromPathCloudflare(f.name))

\* C36: full-zone sync. A record file that is skipped (it does not parse, it
\* has no record array, its name has upper-case letters) causes no DELETE of
\* what the provider holds at the file's subdomain: the PowerDNS batch has no
\* DELETE at that name, and the Cloudflare run deletes no record of it.
C36_SkippedFileKeepsRecords ==
    \A i \in 1..Len(log) :
        \A f \in SkippedFiles(i) :
            /\ log[i].script = "sync" =>
                  \A j \in 1..Len(log[i].batch) :
                      log[i].batch[j].changetype = "DELETE" =>
                          log[i].batch[j].name # subdomainToFqdn(SubdomainOfSkipped(i, f))
            /\ log[i].script = "cloudflare" =>
                  \A k \in 1..Len(log[i].plan.toDelete) :
                      log[i].plan.toDelete[k].subdomain # SubdomainOfSkipped(i, f)

\* The repositories a change-set may have started from: the files it lists
\* as modified (with other content) or deleted, and the files of the working
\* tree it does not list, in directory order.
EarlierTrees(tree, chg) ==
    LET listed    == Range(chg.added) \cup Range(chg.modified)
        changed   == Range(chg.modified) \cup Range(chg.deleted)
        unchanged == {k \in 1..Len(FileCatalog) :
                         FileCatalog[k] \in Range(tree) /\ FileCatalog[k].name \notin listed}
        choices   == {c \in [changed -> 1..Len(FileCatalog)] :
                         \A n \in changed :
                             /\ FileCatalog[c[n]].name = n
                             /\ FileCatalog[c[n]] \notin Range(tree)}
    IN  {pick(FileCatalog, unchanged \cup {c[n] : n \in changed}) : c \in choices}

\* The managed RRSets a full-zone pass over a repository leaves in a zone
\* when its PATCH is accepted.
AfterFullZone(state, tree) ==
    Range(managedRRSets(
        applyPatch(state, SyncPlan(managedRRSets(state),
                                   loadAllRepositoryRecords(tree)).finalPayload)))

\* The zone matches a repository: it holds what a full-zone pass over that
\* repository builds in an empty zone, and such a pass leaves it as it is.
Matches(state, tree) ==
    /\ Range(managedRRSets(state)) = AfterFullZone(<<>>, tree)
    /\ AfterFullZone(state, tree) = Range(managedRRSets(state))

\* C37: the two modes agree. When the zone matched the repository a
\* change-set started from, the managed RRSets the zone holds after a
\* successful incremental update of the change-set are those a successful
\* full-zone pass over the new repository leaves (the SOA RRSet aside).
C37_ModesAgree ==
    \A i \in 1..Len(log) :
        (/\ log[i].script = "update"
         /\ log[i].ok
         /\ log[i].plan.failedReads = {}
         /\ \E old \in EarlierTrees(files, changes) : Matches(log[i].before, old)) =>
            Range(managedRRSets(log[i].after)) = AfterFullZone(log[i].before, files)

\* The records a Cloudflare zone holds at a subdomain.
RecordsAt(state, subdomain) == {r \in Range(state) : r.name = subdomain \o <<ZONE>>}

\* No two records of the zone at the subdomain have the same type, content
\* and priority.
NoDuplicateAt(state, subdomain) ==
    \A r, q \in RecordsAt(state, subdomain) :
        r.id # q.id =>
            updateSignature(r.type, r.content, r.priority) #
                updateSignature(q.type, q.content, q.priority)

\* The signatures of the records a file asks for.
DesiredSignatures(filename) ==
    UNION {{updateSignature(toUpperCase(f.record[k].type), f.record[k].value,
                            IF f.record[k].kind = "mx" THEN f.record[k].priority
                            ELSE undefined) :
               k \in {n \in 1..Len(f.record) : Signed(f.record[n])}} :
           f \in {g \in Range(files) : g.name = filename /\ g.parse = "ok"}}

\* The file is the only one of the change-set that maps to its subdomain.
AloneAtSubdomain(filename) ==
    \A other \in (Range(changes.added) \cup Range(changes.modified)
                      \cup Range(changes.deleted)) \ {filename} :
        getSubdomainFromPathCloudflare(other) # getSubdomainFromPathCloudflare(filename)

\* C38: Cloudflare incremental update. Whether the list calls of the
\* createOrUpdateDNSRecord calls of a file are all answered before their
\* writes or each call finishes before the next is answered, a subdomain
\* without two records of one (type, content, priority) before the run has
\* none after it, and a record the provider held that matches a desired
\* record of a modified file is still held after the run.
C38_ConcurrentUpserts ==
    \A i \in 1..Len(log) :
        log[i].script = "cfupdate" =>
            \A f \in {g \in Range(changes.added) \cup Range(changes.modified) :
                          AloneAtSubdomain(g)} :
                LET subdomain == getSubdomainFromPathCloudflare(f)
                IN  /\ NoDuplicateAt(log[i].before, subdomain) =>
                          NoDuplicateAt(log[i].after, subdomain)
                    /\ f \in Range(changes.modified) =>
                          \A r \in RecordsAt(log[i].before, subdomain) :
                              updateSignature(r.type, r.content, r.priority)
                                      \in DesiredSignatures(f) =>
                                  \E q \in Range(log[i].after) : q.id = r.id

\* ------------------------------------------------------------------------
\* Content canonicalization applied to one record value
\* ------------------------------------------------------------------------

\* Most pieces one content string is put together from.
MaxPieces == 3

\* Record types as files and provider responses spell them.
NormalizeTypes == {"A", "a", "AAAA", "CNAME", "cname", "MX", "NS", "SRV", "PTR", "TXT", "txt"}

\* An octet of 22 digits, the shortest that Number renders with an exponent.
BigOctet == <<"1">> \o [i \in 1..21 |-> "0"]

ContentPieces == {<<"0">>, <<"1">>, <<".">>, <<Quote>>, <<" ">>, <<"a">>, InTxt}

Octets == {<<"1">>, <<"0", "1">>, <<"a">>, <<>>, <<"-", "1">>, BigOctet}

RECURSIVE concat(_)
concat(pieces) == IF Len(pieces) = 0 THEN <<>> ELSE pieces[1] \o concat(Tail(pieces))

\* Content strings: every string of up to MaxPieces pieces, and every dotted
\* quad of the octets.
Contents ==
    {concat(ps) : ps \in UNION {[1..n -> ContentPieces] : n \in 0..MaxPieces}}
    \cup {join(os, <<".">>) : os \in [1..4 -> Octets]}

InitNormalize ==
    /\ \E type \in NormalizeTypes, content \in Contents :
           files = <<File(<<"x">>, <<Def(type, content)>>)>>
    /\ zone = <<>>
    /\ cf = <<>>
    /\ script = "normalize"
    /\ dryRun = FALSE
    /\ changes = NoChanges
    /\ today = Today
    /\ budget = 1
    /\ pc = "idle"
    /\ loaded = NothingLoaded
    /\ log = <<>>

\* normalizeContent of either script, applied once to the value of a record.
Normalize ==
    /\ script = "normalize"
    /\ pc = "idle"
    /\ budget > 0
    /\ \E r \in {files[1].record[1]} :
           log' = Append(log, [script  |-> "normalize",
                               type    |-> r.type,
                               content |-> r.value,
                               sync    |-> normalizeContent(r.type, r.value),
                               update  |-> normalizeContentUpdate(r.type, r.value)])
    /\ budget' = budget - 1
    /\ UNCHANGED <<files, zone, cf, script, dryRun, changes, today, pc, loaded>>

SpecNormalize == InitNormalize /\ [][Normalize]_vars

====
